---- MODULE Spec2Model ----
(***************************************************************************)
(* A model of the chat route of bowling-tracker (src/app/api/chat/route.ts) *)
(*                                                                         *)
(* Spec       the POST handler as a state machine: one request from the    *)
(*            configuration check to the response, with one action per     *)
(*            stretch of code between two awaits.  Collaborator outcomes   *)
(*            (the Reasoning Engine, execute_sql, the data store) are      *)
(*            drawn nondeterministically.                                  *)
(* FairSpec   Spec with weak fairness on every step: every awaited call    *)
(*            eventually returns or throws.                                *)
(* ScopeSpec  the scope resolution of POST (ordering, labels, filters,     *)
(*            working sets) over bounded collections of games.             *)
(*                                                                         *)
(* Text is modelled as a sequence of units; the text it stands for is the  *)
(* concatenation of the units.  A unit is a single character or a whole    *)
(* word, so that the regular expressions of the source (\b, ^, $, \s) are  *)
(* decided on the units next to each other.                                *)
(***************************************************************************)
EXTENDS Naturals, Integers, Sequences, FiniteSets, TLC

VARIABLES
  pc,               \* where the handler is
  chatModeRaw,      \* process.env.CHAT_MODE (the empty string when unset)
  question,         \* payload.question: the set of phrases it contains
  userAccessToken,  \* the caller's bearer token, or Null
  onlineErrors,     \* the accumulating error list
  attempts,         \* history: the tiers attempted so far, in order
  sqlAttempt,       \* what attemptSql returned: none, pending, answer or null
  contextAttempt,   \* what attemptContext returned, likewise
  generatedSql,     \* sqlPayload.sql while the query is executing
  rpcQuery,         \* the query argument of the execute_sql call in flight
  rpcClient,        \* the client the execute_sql call in flight was made with
  rpcRows,          \* the number of rows the last execute_sql call returned
  engineCalls,      \* history: number of Reasoning Engine calls issued
  response,         \* the response returned, or Null
  responses,        \* history: number of responses returned
  offlineRan,       \* history: the Offline tier has run
  games,            \* ScopeSpec: the games the data store returned, in order
  sessions,         \* ScopeSpec: the sessions the data store returned
  ask,              \* ScopeSpec: what the extractors found in the question
  scope,            \* ScopeSpec: what scope resolution computed, or Null
  gameId,           \* ScopeSpec: payload.gameId, or Null
  upserts,          \* history: the upserts to chat_questions this request issued
  requests,         \* LogSpec: the requests being served, each with its state
  chatQuestions     \* LogSpec: the rows of the table chat_questions

pipeVars == <<pc, chatModeRaw, question, userAccessToken,
              onlineErrors, attempts, sqlAttempt, contextAttempt, generatedSql, rpcQuery, rpcClient,
              rpcRows, engineCalls, response, responses, offlineRan>>
scopeVars == <<games, sessions, ask, scope, gameId>>
logVars == <<upserts, requests, chatQuestions>>
vars == <<pipeVars, scopeVars, logVars>>

Null == "<null>"

\* ------------------------------------------------------------------ bounds

MaxSqlLen == 3
MaxTextLen == 2
MaxRows == 1

\* ------------------------------------------------------------ text helpers

\* \s of the source's regular expressions, and what String.trim removes
IsSpace(u) == u \in {" ", "\n"}

\* the units that start / end with a \w character (for \b), that end with one
\* of . ! ? ; the unit <U+00E9> is the one outside \x09\x0A\x0D\x20-\x7E
WordStartUnits == {"nu<U+00E9>ll", "select", "SELECT", "drop", "Set", "limit", "x", "200",
                   "__USE_CONTEXT__", "a", "A", "null", "NULL", "Null", "n/a",
                   "N/a", "Q", "answer:", "Answer:", "You have **", "0", "1",
                   "2", "190", "200", "Game 1", "No scores recorded yet.",
                   "Your average score is **", "Your highest score is **",
                   "No scored games found.", "No response generated.",
                   "Offline mode could not answer this question with basic stats."}
WordEndUnits == {"nu<U+00E9>ll", "select", "SELECT", "drop", "Set", "limit", "x", "200",
                 "__USE_CONTEXT__", "a", "A", "null", "NULL", "Null", "n/a",
                 "N/a", "Q", "0", "1", "2", "190", "Game 1"}
PunctEndUnits == {".", "**.", "No scores recorded yet.", "No scored games found.",
                  "** game in this selection.", "** games in this selection.",
                  "No response generated.",
                  "Offline mode could not answer this question with basic stats."}
StartsWithWordChar(u) == u \in WordStartUnits
EndsWithWordChar(u) == u \in WordEndUnits
IsAscii(u) == u # "<U+00E9>"

RECURSIVE TrimStart(_)
TrimStart(s) ==
  IF s # <<>> /\ IsSpace(Head(s)) THEN TrimStart(Tail(s)) ELSE s

RECURSIVE TrimEnd(_)
TrimEnd(s) ==
  IF s # <<>> /\ IsSpace(s[Len(s)]) THEN TrimEnd(SubSeq(s, 1, Len(s) - 1)) ELSE s

Trim(s) == TrimEnd(TrimStart(s))

toLowerCase(u) ==
  CASE u = "SELECT" -> "select"
    [] u = "Set" -> "set"
    [] u = "A" -> "a"
    [] u \in {"NULL", "Null"} -> "null"
    [] u = "N/a" -> "n/a"
    [] u = "Answer:" -> "answer:"
    [] u = "Session" -> "session"
    [] u = "League" -> "league"
    [] OTHER -> u

toUpperCaseFirst(u) ==
  CASE u = "a" -> "A"
    [] u = "null" -> "Null"
    [] u = "n/a" -> "N/a"
    [] u = "answer:" -> "Answer:"
    [] OTHER -> u

\* \bword\b at position i of s (case-insensitive)
WholeWordAt(s, i, word) ==
  /\ toLowerCase(s[i]) = word
  /\ (i = 1 \/ ~EndsWithWordChar(s[i - 1]))
  /\ (i = Len(s) \/ ~StartsWithWordChar(s[i + 1]))

HasWholeWord(s, word) == \E i \in 1..Len(s) : WholeWordAt(s, i, word)

LowerSeq(s) == [i \in 1..Len(s) |-> toLowerCase(s[i])]

AllTexts(alphabet, n) == UNION {[1..k -> alphabet] : k \in 0..n}

\* ------------------------------------------------------------ validateSql

SQL_CONTEXT_FALLBACK_TOKEN == <<"__USE_CONTEXT__">>

forbidden == <<"insert", "update", "delete", "drop", "alter", "create", "grant",
               "revoke", "truncate", "call", "execute", "set", "vacuum",
               "analyze", "refresh", "copy">>

\* sql.replace(/;+\s*$/, EMPTY) on a trimmed string: the last run of
\* semicolons goes
RECURSIVE StripTrailingSemicolons(_)
StripTrailingSemicolons(s) ==
  IF s # <<>> /\ s[Len(s)] = ";"
  THEN StripTrailingSemicolons(SubSeq(s, 1, Len(s) - 1))
  ELSE s

FirstForbidden(trimmed) ==
  LET hits == {k \in 1..Len(forbidden) : HasWholeWord(trimmed, forbidden[k])}
  IN IF hits = {} THEN 0 ELSE CHOOSE k \in hits : \A j \in hits : k <= j

\* mutant: the forbidden keywords are matched without the i flag
validateSqlCaseSensitive(sql) ==
  LET trimmed == StripTrailingSemicolons(Trim(sql))
      hasLimit == HasWholeWord(trimmed, "limit")
      hit == \E i \in 1..Len(trimmed), k \in 1..Len(forbidden) :
               trimmed[i] = forbidden[k] /\ WholeWordAt(trimmed, i, forbidden[k])
  IN IF ~(trimmed # <<>> /\ WholeWordAt(trimmed, 1, "select"))
     THEN [ok |-> FALSE, reason |-> "Only SELECT statements are allowed.", sql |-> <<>>]
     ELSE IF \E i \in 1..Len(trimmed) : trimmed[i] = ";"
     THEN [ok |-> FALSE, reason |-> "Multiple statements are not allowed.", sql |-> <<>>]
     ELSE IF hit
     THEN [ok |-> FALSE, reason |-> "Forbidden keyword", sql |-> <<>>]
     ELSE [ok |-> TRUE, reason |-> "",
           sql |-> IF hasLimit THEN trimmed
                   ELSE trimmed \o <<" ", "limit", " ", "200">>]

validateSql(sql) ==
  LET trimmed == StripTrailingSemicolons(Trim(sql))
      hasLimit == HasWholeWord(trimmed, "limit")
  IN IF ~(trimmed # <<>> /\ WholeWordAt(trimmed, 1, "select"))
     THEN [ok |-> FALSE, reason |-> "Only SELECT statements are allowed.", sql |-> <<>>]
     ELSE IF \E i \in 1..Len(trimmed) : trimmed[i] = ";"
     THEN [ok |-> FALSE, reason |-> "Multiple statements are not allowed.", sql |-> <<>>]
     ELSE IF FirstForbidden(trimmed) # 0
     THEN [ok |-> FALSE,
           reason |-> "Forbidden keyword: " \o forbidden[FirstForbidden(trimmed)],
           sql |-> <<>>]
     ELSE [ok |-> TRUE, reason |-> "",
           sql |-> IF hasLimit THEN trimmed
                   ELSE trimmed \o <<" ", "limit", " ", "200">>]

\* --------------------------------------------------- answer post-processing

NoResponse == <<"No response generated.">>

\* the characters the capitalisation of ensureSentence skips: a quote, an
\* opening parenthesis or bracket (and the backtick, which no unit here is)
Openers == {"\"", "'", "(", "["}

ensureSentence(text) ==
  LET trimmed == Trim(text)
      withPunctuation ==
        IF trimmed[Len(trimmed)] \in PunctEndUnits THEN trimmed
        ELSE Append(trimmed, ".")
      \* the first letter, after an optional opening quote or bracket
      at == IF withPunctuation[1] \in Openers THEN 2 ELSE 1
  IN IF trimmed = <<>> THEN NoResponse
     ELSE [i \in 1..Len(withPunctuation) |->
             IF i = at THEN toUpperCaseFirst(withPunctuation[i])
             ELSE withPunctuation[i]]

\* text.replace(/^prefix\s*/i, EMPTY)
StripPrefix(text, prefix) ==
  IF text # <<>> /\ toLowerCase(Head(text)) = prefix
  THEN TrimStart(Tail(text)) ELSE text

\* text.split(/\r?\n/): always at least one line
RECURSIVE Split(_)
Split(text) ==
  IF \A i \in 1..Len(text) : text[i] # "\n" THEN <<text>>
  ELSE LET k == CHOOSE i \in 1..Len(text) :
                  text[i] = "\n" /\ \A j \in 1..(i - 1) : text[j] # "\n"
       IN <<SubSeq(text, 1, k - 1)>> \o Split(SubSeq(text, k + 1, Len(text)))

RECURSIVE Join(_)
Join(lines) ==
  IF lines = <<>> THEN <<>>
  ELSE IF Len(lines) = 1 THEN lines[1]
  ELSE lines[1] \o <<"\n">> \o Join(Tail(lines))

NonEmpty(line) == line # <<>>

\* The text of the question is the unit Q (in upper or lower case alike).
sanitizeAnswer(raw, normalizedQuestion) ==
  LET text == StripPrefix(StripPrefix(Trim(raw), "answer:"), "question:")
      lines == Split(text)
      first == lines[1]
      rest == StripPrefix(Trim(Tail(first)), "answer:")
      kept ==
        IF first = normalizedQuestion THEN Tail(lines)
        ELSE IF normalizedQuestion # <<>> /\ first # <<>>
                /\ <<Head(first)>> = normalizedQuestion
        THEN IF rest # <<>> THEN <<rest>> \o Tail(lines) ELSE Tail(lines)
        ELSE lines
      trimmedLines == [i \in 1..Len(kept) |-> Trim(kept[i])]
  IN Join(SelectSeq(trimmedLines, NonEmpty))

\* what is left of a unit that has a character outside the range inside it
AsciiPart(u) == IF u = "nu<U+00E9>ll" THEN "null" ELSE u

stripNonAscii(text) ==
  LET kept == SelectSeq(text, IsAscii)
  IN [i \in 1..Len(kept) |-> AsciiPart(kept[i])]

\* text.replace(/\bnull\b/gi, n/a)
ReplaceNulls(text) ==
  [i \in 1..Len(text) |-> IF WholeWordAt(text, i, "null") THEN "n/a" ELSE text[i]]

formatAnswer(raw, q) ==
  ensureSentence(stripNonAscii(ReplaceNulls(sanitizeAnswer(raw, q))))

formatOfflineAnswer(text) ==
  ensureSentence(stripNonAscii(ReplaceNulls(text)))

\* ------------------------------------------------------------ Offline tier

\* A question is the set of the phrases tryShortcut looks for that its
\* lower-cased text contains.  The questions drawn contain none of the phrases
\* of the rules for total, lowest, strike rate, spare rate and pins per frame.
Questions == {{"how many games"}, {"average"}, {"best score"}, {}}

\* What scope resolution hands to the Offline tier: the summary of
\* offlineGames, its best scored game, and hasTimeFilter; no selection label.
OfflineViews ==
  {[totalGames |-> 0, averageScore |-> Null,
    best |-> [total_score |-> Null, game_name |-> Null], hasTimeFilter |-> FALSE],
   [totalGames |-> 1, averageScore |-> "200",
    best |-> [total_score |-> "200", game_name |-> "null"], hasTimeFilter |-> FALSE],
   [totalGames |-> 2, averageScore |-> "190",
    best |-> [total_score |-> "200", game_name |-> ":"], hasTimeFilter |-> TRUE],
   [totalGames |-> 2, averageScore |-> "190",
    best |-> [total_score |-> "200", game_name |-> "Game 1"], hasTimeFilter |-> FALSE]}

tryShortcut(q, view) ==
  IF "how many games" \in q
  THEN [handled |-> TRUE,
        answer |-> <<"You have **", ToString(view.totalGames),
                     IF view.totalGames = 1 THEN "** game in this selection."
                     ELSE "** games in this selection.">>]
  ELSE IF "average" \in q /\ ~view.hasTimeFilter
  THEN IF view.averageScore = Null
       THEN [handled |-> TRUE, answer |-> <<"No scores recorded yet.">>]
       ELSE [handled |-> TRUE,
             answer |-> <<"Your average score is **", view.averageScore, "**.">>]
  ELSE IF "best score" \in q
  THEN IF view.best.total_score = Null
       THEN [handled |-> TRUE, answer |-> <<"No scored games found.">>]
       ELSE [handled |-> TRUE,
             answer |-> <<"Your highest score is **", view.best.total_score,
                          "** in **", view.best.game_name, "**.">>]
  ELSE [handled |-> FALSE, answer |-> <<>>]

HasColon(u) == u \in {":", "answer:", "Answer:"}
StartsWithStars(u) == u \in {"**", "**.", "** in **", "** game in this selection.",
                             "** games in this selection."}
EndsWithStars(u) == u \in {"**", "** in **", "You have **",
                           "Your average score is **", "Your highest score is **"}

\* one line of applyOfflineBold: /^(.*?:)\s*([^:]+)$/ splits at the last colon
BoldLine(line) ==
  LET colons == {i \in 1..Len(line) : HasColon(line[i])}
      last == CHOOSE i \in colons : \A j \in colons : j <= i
      label == SubSeq(line, 1, last)
      value == Trim(SubSeq(line, last + 1, Len(line)))
  IN IF colons = {} THEN line
     ELSE IF last = Len(line) THEN line
     ELSE IF value # <<>> /\ StartsWithStars(value[1])
             /\ EndsWithStars(value[Len(value)]) THEN line
     ELSE label \o <<" ", "**">> \o value \o <<"**">>

applyOfflineBold(text) ==
  LET lines == Split(text)
  IN Join([i \in 1..Len(lines) |-> BoldLine(lines[i])])

OfflineDefault ==
  <<"Offline mode could not answer this question with basic stats.">>

OfflineNote ==
  "This response was done offline so it can't handle complex questions and may be wrong."

\* --------------------------------------------------------- error summaries

\* message.includes(key), for the messages the model draws
MessageHas(msg, key) ==
  \/ msg = "Gemini error: quota exceeded" /\ key = "quota"
  \/ msg = "SQL generation failed." /\ key = "sql generation failed"
  \/ msg = "SQL execution failed." /\ key = "sql execution failed"
  \/ msg = "canceling statement due to statement timeout" /\ key = "timeout"

summarizeOnlineError(errs) ==
  LET has(key) == \E i \in 1..Len(errs) : MessageHas(errs[i], key)
  IN IF has("quota") \/ has("rate limit")
     THEN "Rate limit reached. Try again in a bit."
     ELSE IF has("invalid api key") \/ has("api key")
     THEN "API key error. Check your Gemini API key."
     ELSE IF has("missing gemini_api_key") THEN "Missing Gemini API key."
     ELSE IF has("missing supabase configuration")
     THEN "Missing Supabase configuration."
     ELSE IF has("sql generation failed")
     THEN "Could not generate a query for that question."
     ELSE IF has("sql execution failed") THEN "Database query failed. Try again."
     ELSE IF has("no sql results") THEN "No results found for that question."
     ELSE IF has("timeout") \/ has("network")
     THEN "Network error. Please try again."
     ELSE "Something went wrong while answering. Please try again."

\* ------------------------------------------------------------ the request

\* payload.question when it is missing or empty
NoQuestion == {Null}

\* the value of response before the handler returns
Pending == [pending |-> TRUE]

SqlAlphabet == {"select", "SELECT", "drop", "Set", "x", " ", ";", "limit",
                "__USE_CONTEXT__"}
SqlTexts == AllTexts(SqlAlphabet, MaxSqlLen)

AnswerAlphabet == {"a", " ", ".", "null", "<U+00E9>", "\n", "Q", "answer:"}
AnswerTexts == AllTexts(AnswerAlphabet, MaxTextLen)

\* the messages of the errors the Reasoning Engine call throws
EngineErrors == {"Gemini error: quota exceeded", "fetch failed"}

\* the messages of the errors execute_sql returns (the empty one has none)
RpcErrors == {"", "permission denied for table games",
              "canceling statement due to statement timeout"}

\* callGemini returns the text of the first candidate, trimmed
callGemini(text) == Trim(text)

\* mutant: an unrecognised CHAT_MODE falls back to sql instead of mix
chatModeDefaultSql ==
  IF chatModeRaw \in {"sql", "context", "mix"} THEN chatModeRaw ELSE "sql"

chatMode ==
  IF chatModeRaw \in {"sql", "context", "mix"} THEN chatModeRaw ELSE "mix"

ErrorResponse(status, message) == [status |-> status, error |-> message]

Init ==
  /\ pc = "start"
  /\ chatModeRaw \in {"sql", "context", "mix", "auto", ""}
  /\ question = NoQuestion
  /\ userAccessToken = Null
  /\ onlineErrors = <<>>
  /\ attempts = <<>>
  /\ sqlAttempt = "none"
  /\ contextAttempt = "none"
  /\ generatedSql = <<>>
  /\ rpcQuery = <<>>
  /\ rpcClient = Null
  /\ rpcRows = 0
  /\ engineCalls = 0
  /\ response = Pending
  /\ responses = 0
  /\ offlineRan = FALSE
  /\ games = <<>>
  /\ sessions = <<>>
  /\ ask = Null
  /\ scope = Null
  /\ gameId = Null
  /\ upserts = <<>>
  /\ requests = <<>>
  /\ chatQuestions = {}

\* the text of the question, as the engine may echo it
QuestionText == <<"Q">>

\* the text of each question drawn, in units: a phrase, a blank or a line
\* break, a number, a punctuation mark
TextOf(q) ==
  IF "how many games" \in q THEN <<"how many games", "?">>
  ELSE IF "average" \in q THEN <<"average", " ", "\n", "12", "?">>
  ELSE IF "best score" \in q THEN <<"A", " ", "best score", "?", " ">>
  ELSE <<"?">>

\* /\s+/g replaced by one blank
RECURSIVE CollapseSpaces(_)
CollapseSpaces(s) ==
  IF s = <<>> THEN <<>>
  ELSE IF IsSpace(Head(s))
       THEN <<" ">> \o CollapseSpaces(TrimStart(s))
       ELSE <<Head(s)>> \o CollapseSpaces(Tail(s))

\* lines 673-680: trimmed, lower-cased, every run of digits replaced by x,
\* everything but a-z, 0-9 and white space removed, white space collapsed
normalizeQuestion(text) ==
  LET lower == LowerSeq(Trim(text))
      digits == [i \in 1..Len(lower) |->
                   IF lower[i] \in {"0", "1", "2", "12", "190", "200"} THEN "x"
                   ELSE lower[i]]
      kept == SelectSeq(digits, LAMBDA u : u \notin {"?", "!", ".", ",", ":"})
  IN CollapseSpaces(kept)

\* line 1777
normalizedQuestion == normalizeQuestion(TextOf(question))

\* lines 711-730, up to the await: nothing for an empty key, else the upsert
\* is issued; the caller does not await it
logQuestionAnswer(answer) ==
  upserts' = IF normalizedQuestion = <<>> THEN upserts
             ELSE Append(upserts, [normalized_question |-> normalizedQuestion,
                                   last_answer |-> answer])

\* return NextResponse.json(body): the handler is over
Return(body) ==
  /\ response' = body
  /\ responses' = responses + 1
  /\ pc' = "done"

\* lines 1735-1747: the configuration check
CheckConfig ==
  /\ pc = "start"
  /\ \E supabaseOk \in BOOLEAN, apiKey \in BOOLEAN :
       IF ~supabaseOk
       THEN Return(ErrorResponse(500, "Missing Supabase configuration."))
       ELSE IF ~apiKey THEN Return(ErrorResponse(500, "Missing GEMINI_API_KEY."))
       ELSE /\ pc' = "parse"
            /\ UNCHANGED <<response, responses>>
  /\ UNCHANGED <<chatModeRaw, question, userAccessToken,
                 onlineErrors, attempts, sqlAttempt, contextAttempt, generatedSql,
                 rpcQuery, rpcClient, rpcRows, engineCalls, offlineRan, scopeVars, logVars>>

\* mutant: the missing question is checked after the engine has been asked
ParseRequestLate ==
  /\ pc = "parse"
  /\ \E q \in Questions \cup {NoQuestion} :
       IF q = NoQuestion
       THEN /\ Return(ErrorResponse(400, "Question is required."))
            /\ engineCalls' = engineCalls + 1
            /\ UNCHANGED question
       ELSE /\ question' = q
            /\ pc' = "auth"
            /\ UNCHANGED <<response, responses, engineCalls>>
  /\ UNCHANGED <<chatModeRaw, userAccessToken, onlineErrors,
                 attempts, sqlAttempt, contextAttempt, generatedSql, rpcQuery,
                 rpcClient, rpcRows, offlineRan, scopeVars, logVars>>

\* lines 1749-1762: the body is parsed; a missing question is a 400
ParseRequest ==
  /\ pc = "parse"
  /\ \E q \in Questions \cup {NoQuestion} :
       IF q = NoQuestion
       THEN /\ Return(ErrorResponse(400, "Question is required."))
            /\ UNCHANGED question
       ELSE /\ question' = q
            /\ pc' = "auth"
            /\ UNCHANGED <<response, responses>>
  /\ UNCHANGED <<chatModeRaw, userAccessToken, onlineErrors,
                 attempts, sqlAttempt, contextAttempt, generatedSql, rpcQuery,
                 rpcClient, rpcRows, engineCalls, offlineRan, scopeVars, logVars>>

\* getUserFromRequest: a valid bearer token gives the user and the token,
\* anything else gives neither
getUserFromRequest(tokenValid) ==
  IF tokenValid THEN [userId |-> "user", accessToken |-> "token"]
  ELSE [userId |-> Null, accessToken |-> Null]

\* lines 1764-1771: the caller is the token's user, else DEV_USER_ID, else 401
Authenticate ==
  /\ pc = "auth"
  /\ \E tokenValid \in BOOLEAN, devUserId \in {Null, "dev"} :
       LET user == getUserFromRequest(tokenValid)
           effectiveUserId == IF user.userId # Null THEN user.userId ELSE devUserId
       IN IF effectiveUserId = Null
          THEN /\ Return(ErrorResponse(401, "Unauthorized."))
               /\ UNCHANGED userAccessToken
          ELSE /\ userAccessToken' = user.accessToken
               /\ pc' = "load_games"
               /\ UNCHANGED <<response, responses>>
  /\ UNCHANGED <<chatModeRaw, question, onlineErrors, attempts,
                 sqlAttempt, contextAttempt, generatedSql, rpcQuery, rpcClient,
                 rpcRows, engineCalls, offlineRan, scopeVars, logVars>>

\* lines 1782-1824: the games are loaded; with gameId a failure is a 404,
\* without it a 500
LoadGames ==
  /\ pc = "load_games"
  /\ \E single \in BOOLEAN, failed \in BOOLEAN :
       IF failed
       THEN Return(ErrorResponse(IF single THEN 404 ELSE 500,
                                 IF single THEN "Game not found."
                                 ELSE "Failed to load games."))
       ELSE /\ pc' = "load_sessions"
            /\ UNCHANGED <<response, responses>>
  /\ UNCHANGED <<chatModeRaw, question, userAccessToken,
                 onlineErrors, attempts, sqlAttempt, contextAttempt, generatedSql,
                 rpcQuery, rpcClient, rpcRows, engineCalls, offlineRan, scopeVars, logVars>>

\* lines 1826-2075: the sessions are loaded (a failure is only logged) and the
\* index, the selection and the summaries are built; ScopeSpec models them,
\* and here their result is drawn where the Offline tier reads it
BuildIndex ==
  /\ pc = "load_sessions"
  /\ pc' = "routing"
  /\ UNCHANGED <<chatModeRaw, question, userAccessToken,
                 onlineErrors, attempts, sqlAttempt, contextAttempt, generatedSql,
                 rpcQuery, rpcClient, rpcRows, engineCalls, response, responses,
                 offlineRan, scopeVars, logVars>>

\* lines 2309-2342: the Offline tier and the Degraded response.  offlineView
\* is what scope resolution (lines 2012-2021) computed for offlineGames, and
\* debugError is process.env.CHAT_DEBUG, read here.
OfflineResponse(errs, offlineView, debugError) ==
  LET onlineError == IF errs # <<>> THEN errs ELSE <<"Chat failed.">>
      shortcut == tryShortcut(question, offlineView)
      offlineAnswer ==
        IF shortcut.handled /\ shortcut.answer # <<>>
        THEN applyOfflineBold(ensureSentence(shortcut.answer))
        ELSE OfflineDefault
  IN [onlineError |-> IF debugError THEN onlineError
                      ELSE <<summarizeOnlineError(onlineError)>>,
      offlineAnswer |-> formatOfflineAnswer(offlineAnswer),
      offlineNote |-> OfflineNote]

SuccessResponse(finalAnswer) == [answer |-> finalAnswer]

\* attemptSql is called: runSqlMethod builds the prompt and awaits callGemini
StartSql ==
  /\ attempts' = Append(attempts, "sql")
  /\ sqlAttempt' = "pending"
  /\ engineCalls' = engineCalls + 1
  /\ pc' = "sql_gen"

\* attemptContext is called: it builds the payload and awaits callGemini
StartContext ==
  /\ attempts' = Append(attempts, "context")
  /\ contextAttempt' = "pending"
  /\ engineCalls' = engineCalls + 1
  /\ pc' = "ctx_call"

\* lines 2272-2299: the policy picks the first tier
Route ==
  /\ pc = "routing"
  /\ IF chatMode = "context"
     THEN StartContext /\ UNCHANGED sqlAttempt
     ELSE StartSql /\ UNCHANGED contextAttempt
  /\ UNCHANGED <<chatModeRaw, question, userAccessToken,
                 onlineErrors, generatedSql, rpcQuery, rpcClient, rpcRows,
                 response, responses, offlineRan, scopeVars, logVars>>

\* lines 2309-2342 after the last tier returned null
FallBackOffline(errs) ==
  /\ \E offlineView \in OfflineViews, debugError \in BOOLEAN :
       LET body == OfflineResponse(errs, offlineView, debugError)
       IN /\ logQuestionAnswer(body.offlineAnswer)
          /\ Return(body)
  /\ offlineRan' = TRUE

\* mutant: attemptSql has no catch and no error branch, so a failure of the
\* SQL tier ends the request with an error
SqlReturnsNullFatal(errs) ==
  /\ sqlAttempt' = "null"
  /\ onlineErrors' = errs
  /\ generatedSql' = <<>>
  /\ rpcQuery' = <<>>
  /\ rpcClient' = Null
  /\ Return(ErrorResponse(500, "Internal Server Error"))
  /\ UNCHANGED <<attempts, contextAttempt, engineCalls, offlineRan>>
  /\ UNCHANGED <<chatModeRaw, question, userAccessToken, rpcRows, scopeVars, logVars>>

\* mutant: under mix the Context tier is skipped after the SQL tier
SqlReturnsNullSkipsContext(errs) ==
  /\ sqlAttempt' = "null"
  /\ onlineErrors' = errs
  /\ generatedSql' = <<>>
  /\ rpcQuery' = <<>>
  /\ rpcClient' = Null
  /\ FallBackOffline(errs)
  /\ UNCHANGED <<attempts, contextAttempt, engineCalls>>
  /\ UNCHANGED <<chatModeRaw, question, userAccessToken, rpcRows, scopeVars,
                 requests, chatQuestions>>

\* attemptSql returned null with the error list errs (lines 2117-2128); POST
\* goes on at lines 2273-2280 or 2291-2299
SqlReturnsNull(errs) ==
  /\ sqlAttempt' = "null"
  /\ onlineErrors' = errs
  /\ generatedSql' = <<>>
  /\ rpcQuery' = <<>>
  /\ rpcClient' = Null
  /\ IF chatMode = "sql"
     THEN /\ FallBackOffline(errs)
          /\ UNCHANGED <<attempts, contextAttempt, engineCalls>>
     ELSE /\ StartContext
          /\ UNCHANGED <<response, responses, offlineRan, upserts>>
  /\ UNCHANGED <<chatModeRaw, question, userAccessToken,
                 rpcRows, scopeVars, requests, chatQuestions>>

\* lines 1656-1662: the client execute_sql is called with
RpcClientFor(supabaseAnonKey, token) ==
  IF supabaseAnonKey /\ token # Null THEN "user" ELSE "service"

\* lines 1618-1667: the first engine call of runSqlMethod returns
SqlGenReturns ==
  /\ pc = "sql_gen"
  /\ \/ \E m \in EngineErrors : SqlReturnsNull(Append(onlineErrors, m))
     \/ \* the text is no JSON, or the object has no sql
        SqlReturnsNull(Append(onlineErrors, "SQL generation failed."))
     \/ \* sql is a number or an object: validateSql throws on sql.trim
        SqlReturnsNull(Append(onlineErrors, "sql.trim is not a function"))
     \/ \E sql \in SqlTexts :
          IF sql = <<>>
          THEN SqlReturnsNull(Append(onlineErrors, "SQL generation failed."))
          ELSE IF Trim(sql) = SQL_CONTEXT_FALLBACK_TOKEN
          THEN SqlReturnsNull(onlineErrors)
          ELSE IF ~validateSql(sql).ok
          THEN SqlReturnsNull(Append(onlineErrors, validateSql(sql).reason))
          ELSE \E supabaseAnonKey \in BOOLEAN :
                 /\ generatedSql' = sql
                 /\ rpcQuery' = validateSql(sql).sql
                 /\ rpcClient' = RpcClientFor(supabaseAnonKey, userAccessToken)
                 /\ pc' = "sql_exec"
                 /\ UNCHANGED <<chatModeRaw, question, userAccessToken,
                                onlineErrors, attempts, sqlAttempt,
                                contextAttempt, rpcRows, engineCalls, response,
                                responses, offlineRan, scopeVars, logVars>>

\* mutant: an error of execute_sql is returned to the caller as a 500
SqlExecReturnsFatal ==
  /\ pc = "sql_exec"
  /\ \/ \E m \in RpcErrors :
          /\ Return(ErrorResponse(500, m))
          /\ sqlAttempt' = "null"
          /\ onlineErrors' = Append(onlineErrors, m)
          /\ UNCHANGED <<rpcRows, engineCalls>>
     \/ \E n \in 0..MaxRows :
          /\ rpcRows' = n
          /\ engineCalls' = engineCalls + 1
          /\ pc' = "sql_answer"
          /\ UNCHANGED <<onlineErrors, sqlAttempt, response, responses>>
  /\ generatedSql' = <<>>
  /\ rpcQuery' = <<>>
  /\ rpcClient' = Null
  /\ UNCHANGED <<chatModeRaw, question, userAccessToken, attempts,
                 contextAttempt, offlineRan, scopeVars, logVars>>

\* lines 1668-1703: execute_sql returns; on rows the second engine call is made
SqlExecReturns ==
  /\ pc = "sql_exec"
  /\ \/ \E m \in RpcErrors :
          SqlReturnsNull(Append(onlineErrors,
                                IF m # "" THEN m ELSE "SQL execution failed."))
     \/ SqlReturnsNull(Append(onlineErrors, "fetch failed"))
     \/ \E n \in 0..MaxRows :
          /\ rpcRows' = n
          /\ generatedSql' = <<>>
          /\ rpcQuery' = <<>>
          /\ rpcClient' = Null
          /\ engineCalls' = engineCalls + 1
          /\ pc' = "sql_answer"
          /\ UNCHANGED <<chatModeRaw, question, userAccessToken,
                         onlineErrors, attempts, sqlAttempt,
                         contextAttempt, response, responses, offlineRan,
                         scopeVars, logVars>>

\* lines 1703-1709 and 2092-2116: the second engine call returns
SqlAnswerReturns ==
  /\ pc = "sql_answer"
  /\ \/ \E m \in EngineErrors : SqlReturnsNull(Append(onlineErrors, m))
     \/ \E text \in AnswerTexts :
          LET answerText == callGemini(text)
              answer == ensureSentence(IF answerText # <<>> THEN answerText
                                       ELSE NoResponse)
              finalAnswer == formatAnswer(answer, QuestionText)
          IN /\ sqlAttempt' = "answer"
             /\ logQuestionAnswer(finalAnswer)
             /\ Return(SuccessResponse(finalAnswer))
             /\ UNCHANGED <<chatModeRaw, question, userAccessToken,
                            onlineErrors, attempts, contextAttempt,
                            generatedSql, rpcQuery, rpcClient, rpcRows,
                            engineCalls, offlineRan, scopeVars, requests,
                            chatQuestions>>

\* mutant: attemptContext has no catch, so an engine error ends the request
ContextReturnsNoCatch ==
  /\ pc = "ctx_call"
  /\ \/ \E m \in EngineErrors :
          /\ contextAttempt' = "null"
          /\ Return(ErrorResponse(500, m))
          /\ UNCHANGED upserts
     \/ \E text \in AnswerTexts :
          /\ contextAttempt' = "answer"
          /\ logQuestionAnswer(formatAnswer(callGemini(text), QuestionText))
          /\ Return(SuccessResponse(formatAnswer(callGemini(text), QuestionText)))
  /\ UNCHANGED <<chatModeRaw, question, userAccessToken, onlineErrors, offlineRan,
                 attempts, sqlAttempt, generatedSql, rpcQuery, rpcClient, rpcRows,
                 engineCalls, scopeVars, requests, chatQuestions>>

\* lines 2242-2269: the engine call of attemptContext returns
ContextReturns ==
  /\ pc = "ctx_call"
  /\ \/ \E m \in EngineErrors :
          /\ contextAttempt' = "null"
          /\ onlineErrors' = Append(onlineErrors, m)
          /\ FallBackOffline(Append(onlineErrors, m))
     \/ \E text \in AnswerTexts :
          /\ contextAttempt' = "answer"
          /\ logQuestionAnswer(formatAnswer(callGemini(text), QuestionText))
          /\ Return(SuccessResponse(formatAnswer(callGemini(text), QuestionText)))
          /\ UNCHANGED <<onlineErrors, offlineRan>>
  /\ UNCHANGED <<chatModeRaw, question, userAccessToken,
                 attempts, sqlAttempt, generatedSql, rpcQuery, rpcClient, rpcRows,
                 engineCalls, scopeVars, requests, chatQuestions>>

Next ==
  \/ CheckConfig
  \/ ParseRequest
  \/ Authenticate
  \/ LoadGames
  \/ BuildIndex
  \/ Route
  \/ SqlGenReturns
  \/ SqlExecReturns
  \/ SqlAnswerReturns
  \/ ContextReturns

Spec == Init /\ [][Next]_vars

\* lines 1439-1450: fetch is called without a signal or a timeout, so a call
\* that the engine never answers is awaited for ever
EngineHangs ==
  /\ pc \in {"sql_gen", "sql_answer", "ctx_call"}
  /\ pc' = "hung"
  /\ UNCHANGED <<chatModeRaw, question, userAccessToken, onlineErrors, attempts,
                 sqlAttempt, contextAttempt, generatedSql, rpcQuery, rpcClient,
                 rpcRows, engineCalls, response, responses, offlineRan,
                 scopeVars, logVars>>

HangNext == Next \/ EngineHangs

\* Positions of the handler: the stretches of POST between two awaits.
PcValues ==
  {"start", "parse", "auth", "load_games", "load_sessions", "routing",
   "sql_gen", "sql_exec", "sql_answer", "ctx_call", "done"}

\* An awaited call settles and the handler moves to another position.  Every
\* step of Next changes pc, and a step is possible exactly when pc # "done".
Settles == pc # "done" /\ pc' \in (PcValues \ {pc})

\* The same handler when an engine call may also never return: every awaited
\* call settles or hangs, and nothing moves the handler once a call hangs.
SettlesOrHangs ==
  pc \notin {"done", "hung"} /\ pc' \in ((PcValues \cup {"hung"}) \ {pc})

HangSpec == Init /\ [][HangNext]_vars /\ WF_pc(SettlesOrHangs)

FairSpec == Spec /\ WF_pc(Settles)

\* ------------------------------------------------------- scope resolution
\* An optional value (string | null | undefined, number | undefined) is a
\* sequence of at most one element; a name is a sequence of units and the null
\* name is the empty one: every read of a name is of its trimmed, truthy form.

MaxGames == 2

contextLimit == 15

MinutesPerDay == 1440

\* instants are minutes since the epoch
getUTCDay(t) == t \div MinutesPerDay
getUTCMinutes(t) == t % MinutesPerDay

GameId(i) == "g" \o ToString(i)

\* a.id.localeCompare(b.id) on the identities of the model
IdRank(id) == CASE id = "s1" -> 1 [] id = "s2" -> 2 [] OTHER -> 0

GameShapes ==
  [session_id : {Null, "s1", "s2"},
   game_name : {<<>>, <<"Warmup", " ">>},
   played_at : {<<>>, <<2040>>, <<4080>>}]

GameRow(i, shape) ==
  [id |-> GameId(i), session_id |-> shape.session_id,
   game_name |-> shape.game_name, played_at |-> shape.played_at,
   created_at |-> <<3000>>]

\* .order(played_at, descending): the store puts the null timestamps first
StoreOrdered(rows) ==
  \A i, j \in 1..Len(rows) :
    i < j => \/ rows[i].played_at = <<>>
             \/ /\ rows[j].played_at # <<>>
                /\ rows[i].played_at[1] >= rows[j].played_at[1]

GameCollections ==
  {rows \in UNION {[1..n -> GameShapes] : n \in 0..MaxGames} :
     StoreOrdered(rows)}

SessionCollections ==
  {<<>>} \cup
  {<<[id |-> "s2", name |-> <<>>, created_at |-> <<200>>],
     [id |-> "s1", name |-> n, created_at |-> <<100>>]>> :
       n \in {<<>>, <<" ", "League">>}}

NoTimeFilter ==
  [date |-> <<>>, rangeStart |-> <<>>, rangeEnd |-> <<>>,
   beforeMinutes |-> <<>>, afterMinutes |-> <<>>,
   utcDateStart |-> <<>>, utcDateEnd |-> <<>>]

\* Date.UTC(year, month, day): a DateFilter is the number of its day, and an
\* instant is in minutes
DateUTC(day) == day * MinutesPerDay

\* new Date(t).toISOString() and Date.parse of it: the text names the day and
\* the minute of the day
toISOString(t) == [day |-> t \div MinutesPerDay, minute |-> t % MinutesPerDay]
DateParse(iso) == iso.day * MinutesPerDay + iso.minute

\* the % of the language truncates towards zero
Remainder(a, b) == IF a >= 0 THEN a % b ELSE 0 - ((0 - a) % b)

\* mutant: the remainder is taken once, so a negative total stays negative
convertMinutesToUtcTruncating(localMinutes, offsetMinutes) ==
  LET total == localMinutes + offsetMinutes
  IN [minutes |-> Remainder(total, MinutesPerDay),
      dayShift |-> total \div MinutesPerDay]

convertMinutesToUtc(localMinutes, offsetMinutes) ==
  LET total == localMinutes + offsetMinutes
  IN [minutes |-> Remainder(Remainder(total, MinutesPerDay) + MinutesPerDay,
                            MinutesPerDay),
      dayShift |-> total \div MinutesPerDay]

shiftDate(date, dayDelta) == IF dayDelta = 0 THEN date ELSE date + dayDelta

\* timezoneOffsetMinutes is <<>> when undefined or not finite
normalizeTimeFilterToUtc(filter, timezoneOffsetMinutes) ==
  IF timezoneOffsetMinutes = <<>> THEN filter
  ELSE
    LET offset == timezoneOffsetMinutes[1]
        hasTime == filter.beforeMinutes # <<>> \/ filter.afterMinutes # <<>>
        ranged ==
          IF filter.rangeStart # <<>> /\ filter.rangeEnd # <<>>
          THEN [filter EXCEPT
                  !.utcDateStart =
                     <<toISOString(DateUTC(filter.rangeStart[1]) + offset)>>,
                  !.utcDateEnd =
                     <<toISOString(DateUTC(filter.rangeEnd[1] + 1) + offset)>>,
                  !.rangeStart = <<>>, !.rangeEnd = <<>>]
          ELSE filter
        before == convertMinutesToUtc(filter.beforeMinutes[1], offset)
        afterBefore ==
          IF filter.beforeMinutes # <<>>
          THEN [next |-> [ranged EXCEPT !.beforeMinutes = <<before.minutes>>],
                nextDate |-> IF filter.date # <<>>
                             THEN <<shiftDate(filter.date[1], before.dayShift)>>
                             ELSE filter.date]
          ELSE [next |-> ranged, nextDate |-> filter.date]
        after == convertMinutesToUtc(filter.afterMinutes[1], offset)
        afterAfter ==
          IF filter.afterMinutes # <<>>
          THEN [next |-> [afterBefore.next EXCEPT
                            !.afterMinutes = <<after.minutes>>],
                nextDate |-> IF afterBefore.nextDate # <<>>
                             THEN <<shiftDate(afterBefore.nextDate[1],
                                              after.dayShift)>>
                             ELSE afterBefore.nextDate]
          ELSE afterBefore
        dated ==
          IF afterAfter.nextDate # <<>>
          THEN [afterAfter.next EXCEPT !.date = afterAfter.nextDate]
          ELSE afterAfter.next
    IN IF /\ filter.date # <<>> /\ ~hasTime
          /\ filter.rangeStart = <<>> /\ filter.rangeEnd = <<>>
       THEN [dated EXCEPT
               !.utcDateStart = <<toISOString(DateUTC(filter.date[1]) + offset)>>,
               !.utcDateEnd =
                  <<toISOString(DateUTC(filter.date[1] + 1) + offset)>>,
               !.date = <<>>]
       ELSE dated

\* the time references of the questions asked over a collection, each with
\* the timezone offset of its request: none, before 10am five hours west, a
\* single date in UTC, and two dates with no offset sent
ScopeTimeInputs ==
  {<<NoTimeFilter, <<>>>>,
   <<[NoTimeFilter EXCEPT !.beforeMinutes = <<600>>], <<300>>>>,
   <<[NoTimeFilter EXCEPT !.date = <<2>>], <<0>>>>,
   <<[NoTimeFilter EXCEPT !.rangeStart = <<1>>, !.rangeEnd = <<2>>], <<>>>>}

\* the filters normalizeTimeFilterToUtc(extractTimeFilter(question), offset)
\* yields for them
TimeFilters ==
  {normalizeTimeFilterToUtc(p[1], p[2]) : p \in ScopeTimeInputs}

\* what the extractors find in a question: the session numbers, the session
\* names it mentions (lowered), a sessionless mention, the game numbers, the
\* frame numbers and the normalised time filter
SessionReferences ==
  {[sessionNumbers |-> <<>>, mentions |-> {}, sessionless |-> FALSE],
   [sessionNumbers |-> <<1>>, mentions |-> {}, sessionless |-> FALSE],
   [sessionNumbers |-> <<>>, mentions |-> {<<"league">>}, sessionless |-> FALSE],
   [sessionNumbers |-> <<>>, mentions |-> {}, sessionless |-> TRUE]}

Ask(r, n, f, t) ==
  [sessionNumbers |-> r.sessionNumbers, mentions |-> r.mentions,
   sessionless |-> r.sessionless, selectedNumbers |-> n,
   selectedFrames |-> f, timeFilter |-> t]

\* every combination of a session reference, a game number and a time filter,
\* and every session reference with a frame number
Asks ==
  {Ask(r, n, <<>>, t) :
     r \in SessionReferences, n \in {<<>>, <<1>>}, t \in TimeFilters}
  \cup {Ask(r, <<>>, <<1>>, NoTimeFilter) : r \in SessionReferences}

includes(s, x) == \E i \in 1..Len(s) : s[i] = x

slice(s, from, to) ==
  IF to <= from THEN <<>>
  ELSE SubSeq(s, from + 1, IF to < Len(s) THEN to ELSE Len(s))

Ids(s) == {s[i].id : i \in 1..Len(s)}

\* a.played_at ? Date.parse(a.played_at) : a.created_at ? Date.parse(...) : 0
TimeOf(g) ==
  IF g.played_at # <<>> THEN g.played_at[1]
  ELSE IF g.created_at # <<>> THEN g.created_at[1] ELSE 0

\* Array.prototype.sort is stable: equal keys keep their order
RECURSIVE InsertByTime(_, _)
InsertByTime(sorted, g) ==
  IF sorted = <<>> THEN <<g>>
  ELSE IF TimeOf(Head(sorted)) <= TimeOf(g)
       THEN <<Head(sorted)>> \o InsertByTime(Tail(sorted), g)
       ELSE <<g>> \o sorted

RECURSIVE SortByTime(_)
SortByTime(s) ==
  IF s = <<>> THEN <<>>
  ELSE InsertByTime(SortByTime(SubSeq(s, 1, Len(s) - 1)), s[Len(s)])

SessionBefore(a, b) ==
  LET aTime == IF a.created_at # <<>> THEN a.created_at[1] ELSE 0
      bTime == IF b.created_at # <<>> THEN b.created_at[1] ELSE 0
  IN IF aTime # bTime THEN aTime < bTime ELSE IdRank(a.id) <= IdRank(b.id)

RECURSIVE InsertSession(_, _)
InsertSession(sorted, x) ==
  IF sorted = <<>> THEN <<x>>
  ELSE IF SessionBefore(Head(sorted), x)
       THEN <<Head(sorted)>> \o InsertSession(Tail(sorted), x)
       ELSE <<x>> \o sorted

RECURSIVE orderedSessions(_)
orderedSessions(s) ==
  IF s = <<>> THEN <<>>
  ELSE InsertSession(orderedSessions(SubSeq(s, 1, Len(s) - 1)), s[Len(s)])

sessionsWithGames(gs, ss) ==
  LET sessionIdsWithGames == {gs[i].session_id : i \in 1..Len(gs)} \ {Null}
      Keep(x) == x.id \in sessionIdsWithGames
  IN SelectSeq(ss, Keep)

sessionIndex(gs, ss) ==
  LET os == orderedSessions(sessionsWithGames(gs, ss))
  IN [k \in 1..Len(os) |->
        LET trimmedName == Trim(os[k].name)
        IN [sessionId |-> os[k].id,
            sessionLabel |-> IF Len(trimmedName) > 0 THEN trimmedName
                             ELSE <<"Session", " ", ToString(k)>>,
            sessionName |-> trimmedName]]

\* sessionLabelById.get(id) ?? fallback
sessionLabelOf(sidx, id, fallback) ==
  LET at == {k \in 1..Len(sidx) : sidx[k].sessionId = id}
  IN IF at = {} THEN fallback ELSE sidx[CHOOSE k \in at : TRUE].sessionLabel

customNameById(gs) ==
  [id \in {gs[i].id : i \in {k \in 1..Len(gs) : Trim(gs[k].game_name) # <<>>}} |->
     Trim(gs[CHOOSE i \in 1..Len(gs) : gs[i].id = id].game_name)]

orderedGames(gs) ==
  LET sorted == SortByTime(gs)
  IN [i \in 1..Len(sorted) |->
        [sorted[i] EXCEPT !.game_name =
           IF Trim(@) # <<>> THEN Trim(@) ELSE <<"Game", " ", ToString(i)>>]]

extractSessionNameMatches(a, names) ==
  {n \in names : Trim(n) # <<>> /\ LowerSeq(Trim(n)) \in a.mentions}

selectedSessionIds(a, sidx) ==
  LET byNumber ==
        UNION {LET hit == {k \in 1..Len(sidx) :
                             LowerSeq(sidx[k].sessionLabel)
                               = <<"session", " ", ToString(a.sessionNumbers[v])>>}
               IN IF hit = {} THEN {}
                  ELSE {sidx[CHOOSE k \in hit : \A h \in hit : k <= h].sessionId}
               : v \in 1..Len(a.sessionNumbers)}
      sessionNameMatches ==
        extractSessionNameMatches(a,
          {sidx[k].sessionName : k \in 1..Len(sidx)} \ {<<>>})
      byName ==
        {sidx[k].sessionId : k \in
           {k \in 1..Len(sidx) :
              /\ sidx[k].sessionName # <<>>
              /\ \E n \in sessionNameMatches :
                   LowerSeq(n) = LowerSeq(sidx[k].sessionName)}}
  IN byNumber \cup byName

hasSessionFilter(a, selected) == selected # {} \/ a.sessionless

sessionFilteredGames(og, a, selected) ==
  LET Keep(g) == IF g.session_id = Null THEN a.sessionless
                 ELSE g.session_id \in selected
  IN IF hasSessionFilter(a, selected) THEN SelectSeq(og, Keep) ELSE og

\* mutant: the games are numbered along the whole collection, not per session
gameNumberByIdGlobal(og) ==
  [id \in Ids(og) |-> CHOOSE k \in 1..Len(og) : og[k].id = id]

\* grouped by session (or sessionless), each group sorted again and numbered
gameNumberById(og) ==
  [id \in Ids(og) |->
     LET g == og[CHOOSE i \in 1..Len(og) : og[i].id = id]
         InGroup(x) == x.session_id = g.session_id
         groupGames == SortByTime(SelectSeq(og, InGroup))
     IN CHOOSE k \in 1..Len(groupGames) : groupGames[k].id = id]

gameLabelById(og, sidx, customNames, sessionFilter) ==
  LET numbers == gameNumberById(og)
  IN [id \in Ids(og) |->
        LET g == og[CHOOSE i \in 1..Len(og) : og[i].id = id]
            sessionLabel == IF g.session_id # Null
                            THEN sessionLabelOf(sidx, g.session_id, <<"Session">>)
                            ELSE <<"Sessionless games">>
            fallbackLabel ==
              IF sessionFilter THEN <<"Game", " ", ToString(numbers[id])>>
              ELSE <<"Game", " ", ToString(numbers[id]), " ", "in", " ">>
                     \o sessionLabel
        IN IF id \in DOMAIN customNames THEN customNames[id] ELSE fallbackLabel]

selectedGames(filtered, a, numbers) ==
  LET Keep(g) == includes(a.selectedNumbers, numbers[g.id])
  IN IF Len(a.selectedNumbers) > 0 THEN SelectSeq(filtered, Keep) ELSE filtered

hasTimeFilter(f) ==
  \/ f.date # <<>> \/ f.rangeStart # <<>> \/ f.rangeEnd # <<>>
  \/ f.beforeMinutes # <<>> \/ f.afterMinutes # <<>>
  \/ f.utcDateStart # <<>> \/ f.utcDateEnd # <<>>

applyTimeFilter(gs, f) ==
  LET Keep(g) ==
        /\ g.played_at # <<>>
        /\ LET playedTime == g.played_at[1]
           IN /\ IF f.utcDateStart # <<>> /\ f.utcDateEnd # <<>>
                 THEN ~(playedTime < DateParse(f.utcDateStart[1])
                        \/ playedTime >= DateParse(f.utcDateEnd[1]))
                 ELSE f.date # <<>> => getUTCDay(playedTime) = f.date[1]
              /\ ~(f.beforeMinutes # <<>>
                   /\ getUTCMinutes(playedTime) >= f.beforeMinutes[1])
              /\ ~(f.afterMinutes # <<>>
                   /\ getUTCMinutes(playedTime) <= f.afterMinutes[1])
  IN IF /\ f.date = <<>> /\ f.beforeMinutes = <<>> /\ f.afterMinutes = <<>>
        /\ f.utcDateStart = <<>> /\ f.utcDateEnd = <<>>
     THEN gs
     ELSE SelectSeq(gs, Keep)

\* the Game Index: every game of the collection with its label
GameIndex(og, labels, sidx) ==
  [i \in 1..Len(og) |->
     [id |-> og[i].id, gameName |-> labels[og[i].id],
      sessionId |-> og[i].session_id,
      sessionLabel |-> IF og[i].session_id # Null
                       THEN sessionLabelOf(sidx, og[i].session_id, <<>>)
                       ELSE <<>>]]

\* the games embedded in the Context payload
contextGames(online, labels, sidx, frames) ==
  LET cut == slice(online, 0, contextLimit)
  IN [i \in 1..Len(cut) |->
        [gameName |-> labels[cut[i].id], playedAt |-> cut[i].played_at,
         sessionId |-> cut[i].session_id,
         sessionLabel |-> IF cut[i].session_id # Null
                          THEN sessionLabelOf(sidx, cut[i].session_id, <<>>)
                          ELSE <<>>,
         frames |-> frames]]

\* everything POST computes between loading the rows and the first tier
ResolveScope(gs, ss, a) ==
  LET sidx == sessionIndex(gs, ss)
      og == orderedGames(gs)
      selected == selectedSessionIds(a, sidx)
      filtered == sessionFilteredGames(og, a, selected)
      numbers == gameNumberById(og)
      labels == gameLabelById(og, sidx, customNameById(gs),
                              hasSessionFilter(a, selected))
      chosen == selectedGames(filtered, a, numbers)
      onlineGames == chosen
      offlineGames == applyTimeFilter(chosen, a.timeFilter)
  IN [sessionIndex |-> sidx,
      selectedSessionIds |-> selected,
      hasSessionFilter |-> hasSessionFilter(a, selected),
      hasTimeFilter |-> hasTimeFilter(a.timeFilter),
      orderedGames |-> og,
      gameNumberById |-> numbers,
      gameLabelById |-> labels,
      onlineGames |-> onlineGames,
      offlineGames |-> offlineGames,
      index |-> GameIndex(og, labels, sidx),
      contextGames |-> contextGames(onlineGames, labels, sidx, a.selectedFrames)]

ScopeInit ==
  /\ pc = "scope_load_games"
  /\ chatModeRaw = ""
  /\ question = NoQuestion
  /\ userAccessToken = Null
  /\ onlineErrors = <<>>
  /\ attempts = <<>>
  /\ sqlAttempt = "none"
  /\ contextAttempt = "none"
  /\ generatedSql = <<>>
  /\ rpcQuery = <<>>
  /\ rpcClient = Null
  /\ rpcRows = 0
  /\ engineCalls = 0
  /\ response = Pending
  /\ responses = 0
  /\ offlineRan = FALSE
  /\ games = <<>>
  /\ sessions = <<>>
  /\ ask = Null
  /\ scope = Null
  /\ gameId = Null
  /\ upserts = <<>>
  /\ requests = <<>>
  /\ chatQuestions = {}

\* lines 1804-1823: the store returns the caller's games, newest first
ScopeLoadGames ==
  /\ pc = "scope_load_games"
  /\ \E shapes \in GameCollections :
       games' = [i \in 1..Len(shapes) |-> GameRow(i, shapes[i])]
  /\ pc' = "scope_load_sessions"
  /\ UNCHANGED <<sessions, ask, scope, gameId>>
  /\ UNCHANGED <<chatModeRaw, question, userAccessToken, onlineErrors, attempts,
                 sqlAttempt, contextAttempt, generatedSql, rpcQuery, rpcClient,
                 rpcRows, engineCalls, response, responses, offlineRan, logVars>>

\* lines 1782-1802: with gameId the store returns that one game
ScopeLoadGame ==
  /\ pc = "scope_load_games"
  /\ \E shape \in GameShapes :
       /\ games' = <<GameRow(1, shape)>>
       /\ gameId' = GameId(1)
  /\ pc' = "scope_load_sessions"
  /\ UNCHANGED <<sessions, ask, scope>>
  /\ UNCHANGED <<chatModeRaw, question, userAccessToken, onlineErrors, attempts,
                 sqlAttempt, contextAttempt, generatedSql, rpcQuery, rpcClient,
                 rpcRows, engineCalls, response, responses, offlineRan, logVars>>

\* lines 1826-1838: the store returns the caller's sessions; on an error the
\* list is empty
ScopeLoadSessions ==
  /\ pc = "scope_load_sessions"
  /\ \E rows \in SessionCollections : sessions' = rows
  /\ pc' = "scope_build"
  /\ UNCHANGED <<games, ask, scope, gameId>>
  /\ UNCHANGED <<chatModeRaw, question, userAccessToken, onlineErrors, attempts,
                 sqlAttempt, contextAttempt, generatedSql, rpcQuery, rpcClient,
                 rpcRows, engineCalls, response, responses, offlineRan, logVars>>

\* lines 1838-2073 and 2131-2154: the question is read and the scope resolved
ScopeResolve ==
  /\ pc = "scope_build"
  /\ \E a \in Asks :
       /\ ask' = a
       /\ scope' = ResolveScope(games, sessions, a)
  /\ pc' = "scope_done"
  /\ UNCHANGED <<games, sessions, gameId>>
  /\ UNCHANGED <<chatModeRaw, question, userAccessToken, onlineErrors, attempts,
                 sqlAttempt, contextAttempt, generatedSql, rpcQuery, rpcClient,
                 rpcRows, engineCalls, response, responses, offlineRan, logVars>>

ScopeNext ==
  \/ ScopeLoadGames
  \/ ScopeLoadGame
  \/ ScopeLoadSessions
  \/ ScopeResolve

ScopeSpec == ScopeInit /\ [][ScopeNext]_vars

\* ------------------------------------------------------ the time normaliser
\* normalizeTimeFilterToUtc applied to the filters extractTimeFilter yields
\* (no date, one date or two dates; no clause, a before or an after clause),
\* and applied again to its own result.

MaxDate == 2

LocalMinutes == {0, 600, 1380, 1439}

TimezoneOffsets == {<<>>, <<-720>>, <<-60>>, <<0>>, <<300>>, <<840>>, <<1500>>}

LocalTimeFilters ==
  LET dates ==
        {NoTimeFilter}
        \cup {[NoTimeFilter EXCEPT !.date = <<d>>] : d \in 1..MaxDate}
        \cup {[NoTimeFilter EXCEPT !.rangeStart = <<a>>, !.rangeEnd = <<b>>] :
                a \in 1..MaxDate, b \in 1..MaxDate}
  IN dates
     \cup {[f EXCEPT !.beforeMinutes = <<m>>] : f \in dates, m \in LocalMinutes}
     \cup {[f EXCEPT !.afterMinutes = <<m>>] : f \in dates, m \in LocalMinutes}

\* the variables of the request handler, at rest
HandlerAtRest ==
  /\ chatModeRaw = ""
  /\ question = NoQuestion
  /\ userAccessToken = Null
  /\ onlineErrors = <<>>
  /\ attempts = <<>>
  /\ sqlAttempt = "none"
  /\ contextAttempt = "none"
  /\ generatedSql = <<>>
  /\ rpcQuery = <<>>
  /\ rpcClient = Null
  /\ rpcRows = 0
  /\ engineCalls = 0
  /\ response = Pending
  /\ responses = 0
  /\ offlineRan = FALSE
  /\ games = <<>>
  /\ sessions = <<>>
  /\ gameId = Null
  /\ upserts = <<>>
  /\ requests = <<>>
  /\ chatQuestions = {}

handlerVars ==
  <<chatModeRaw, question, userAccessToken, onlineErrors, attempts, sqlAttempt,
    contextAttempt, generatedSql, rpcQuery, rpcClient, rpcRows, engineCalls,
    response, responses, offlineRan, games, sessions, gameId, logVars>>

TimeInit ==
  /\ pc = "time_call"
  /\ ask = Null
  /\ scope = Null
  /\ HandlerAtRest

\* lines 1997-2001: the extracted filter is normalised with the offset sent
Normalize ==
  /\ pc = "time_call"
  /\ \E f \in LocalTimeFilters, o \in TimezoneOffsets :
       /\ ask' = [filter |-> f, timezoneOffsetMinutes |-> o]
       /\ scope' = normalizeTimeFilterToUtc(f, o)
  /\ pc' = "time_once"
  /\ UNCHANGED handlerVars

\* the normaliser is applied to its own result
NormalizeAgain ==
  /\ pc = "time_once"
  /\ scope' = normalizeTimeFilterToUtc(scope, ask.timezoneOffsetMinutes)
  /\ pc' = "time_twice"
  /\ UNCHANGED <<ask, handlerVars>>

TimeNext ==
  \/ Normalize
  \/ NormalizeAgain

TimeSpec == TimeInit /\ [][TimeNext]_vars

\* ------------------------------------------------- extractGameNumbers
\* A question is a sequence of tokens: the words game and games, a blank, a
\* numeral, a hyphen, the word to, a comma, the word and.

MaxList == 3

Numerals == {"2", "3", "4"}

parseInt(u) == CHOOSE n \in 0..9 : ToString(n) = u

\* \s* from position i on: the position of the first token that is no blank
RECURSIVE SkipSpaces(_, _)
SkipSpaces(s, i) ==
  IF i <= Len(s) /\ s[i] = " " THEN SkipSpaces(s, i + 1) ELSE i

\* mutant: the range is walked from start to end as written
RangeAtOrdered(s, i) ==
  LET a == SkipSpaces(s, i + 1)
      op == SkipSpaces(s, a + 1)
      b == SkipSpaces(s, op + 1)
  IN IF /\ b <= Len(s) /\ s[i] \in {"game", "games"} /\ s[a] \in Numerals
        /\ s[op] \in {"-", "to"} /\ s[b] \in Numerals
     THEN parseInt(s[a])..parseInt(s[b])
     ELSE {}

\* /games?\s*(\d+)\s*(?:-|to)\s*(\d+)/ matched at token i: the numbers from
\* the smaller end to the larger
RangeAt(s, i) ==
  LET a == SkipSpaces(s, i + 1)
      op == SkipSpaces(s, a + 1)
      b == SkipSpaces(s, op + 1)
  IN IF /\ b <= Len(s) /\ s[i] \in {"game", "games"} /\ s[a] \in Numerals
        /\ s[op] \in {"-", "to"} /\ s[b] \in Numerals
     THEN LET start == parseInt(s[a])
              end == parseInt(s[b])
              min == IF start <= end THEN start ELSE end
              max == IF start <= end THEN end ELSE start
          IN min..max
     ELSE {}

\* Array.from(numbers).sort((a, b) => a - b)
RECURSIVE SortAscending(_)
SortAscending(numbers) ==
  IF numbers = {} THEN <<>>
  ELSE LET least == CHOOSE n \in numbers : \A m \in numbers : n <= m
       IN <<least>> \o SortAscending(numbers \ {least})

extractGameNumbers(s) ==
  LET ranges == UNION {RangeAt(s, i) : i \in 1..Len(s)}
      \* /games?\s+([0-9,\sand]+)/, first match only: the tokens made of the
      \* characters of the class
      class == Numerals \cup {",", " ", "and"}
      listStarts == {i \in 1..Len(s) :
                       /\ i + 2 <= Len(s) /\ s[i] \in {"game", "games"}
                       /\ s[i + 1] = " " /\ s[i + 2] \in class}
      listStart == CHOOSE i \in listStarts : \A j \in listStarts : i <= j
      InRun(k) == \A j \in (listStart + 2)..k : s[j] \in class
      list == IF listStarts = {} THEN {}
              ELSE {parseInt(s[k]) :
                      k \in {k \in (listStart + 2)..Len(s) :
                               InRun(k) /\ s[k] \in Numerals}}
      \* /game\s*(\d+)/: the word games has an s before the digits
      singles == {parseInt(s[SkipSpaces(s, i + 1)]) :
                    i \in {i \in 1..Len(s) :
                             /\ s[i] = "game" /\ SkipSpaces(s, i + 1) <= Len(s)
                             /\ s[SkipSpaces(s, i + 1)] \in Numerals}}
  IN SortAscending(ranges \cup list \cup singles)

RECURSIVE Interleave(_, _)
Interleave(nums, seps) ==
  IF Len(nums) = 1 THEN nums
  ELSE <<Head(nums)>> \o Head(seps) \o Interleave(Tail(nums), Tail(seps))

\* the questions: a range (game or games, a numeral, a hyphen or to, a
\* numeral, with or without blanks) and a list of up to MaxList numerals
\* separated by a comma, a comma and a blank, or the word and; each with the
\* numbers it names
GameNumberQuestions ==
  LET blank == {<<>>, <<" ">>}
      low(a, b) == IF parseInt(a) <= parseInt(b) THEN parseInt(a) ELSE parseInt(b)
      high(a, b) == IF parseInt(a) <= parseInt(b) THEN parseInt(b) ELSE parseInt(a)
      separators == {<<",">>, <<",", " ">>, <<" ", "and", " ">>}
  IN {[form |-> "range",
       question |-> <<w>> \o s1 \o <<a>> \o s2 \o <<op>> \o s3 \o <<b>>,
       named |-> low(a, b)..high(a, b)] :
        w \in {"game", "games"}, s1 \in blank, a \in Numerals, s2 \in blank,
        op \in {"-", "to"}, s3 \in blank, b \in Numerals}
     \cup
     UNION {{[form |-> "list",
              question |-> <<w, " ">> \o Interleave(nums, seps),
              named |-> {parseInt(nums[i]) : i \in 1..n}] :
               w \in {"game", "games"}, nums \in [1..n -> Numerals],
               seps \in [1..(n - 1) -> separators]} : n \in 1..MaxList}

\* ------------------------------------------------------- summarizeGames
\* A game is its total_score (empty for null) and its frames; a frame is its
\* is_strike and is_spare flags. averageScore is held in hundredths and the
\* rates in thousandths, empty for null.

MaxSummarized == 3

\* Number((numerator / denominator).toFixed(digits)) in units of 10^-digits,
\* scale = 10^digits: the nearest multiple, for a quotient that is not
\* negative
toFixed(numerator, denominator, scale) ==
  (2 * numerator * scale + denominator) \div (2 * denominator)

RECURSIVE Sum(_)
Sum(numbers) == IF numbers = <<>> THEN 0 ELSE Head(numbers) + Sum(Tail(numbers))

RECURSIVE flat(_)
flat(lists) == IF lists = <<>> THEN <<>> ELSE Head(lists) \o flat(Tail(lists))

\* mutant: the average is taken over all games
summarizeGamesOverAll(gs) ==
  LET totalGames == Len(gs)
      totalScore == Sum([i \in 1..Len(gs) |->
                           IF gs[i].total_score = <<>> THEN 0
                           ELSE gs[i].total_score[1]])
      scoredGames == Len(SelectSeq(gs, LAMBDA g : g.total_score # <<>>))
      frames == flat([i \in 1..Len(gs) |-> gs[i].frames])
      totalFrames == Len(frames)
      strikeFrames == Len(SelectSeq(frames, LAMBDA f : f.is_strike))
      spareFrames == Len(SelectSeq(frames, LAMBDA f : f.is_spare))
  IN [totalGames |-> totalGames,
      scoredGames |-> scoredGames,
      averageScore |-> IF scoredGames > 0
                       THEN <<toFixed(totalScore, totalGames, 100)>> ELSE <<>>,
      totalFrames |-> totalFrames,
      strikeRate |-> IF totalFrames > 0
                     THEN <<toFixed(strikeFrames, totalFrames, 1000)>> ELSE <<0>>,
      spareRate |-> IF totalFrames > 0
                    THEN <<toFixed(spareFrames, totalFrames, 1000)>> ELSE <<0>>]

\* lines 93-154, without the per-frame breakdown
summarizeGames(gs) ==
  LET totalGames == Len(gs)
      totalScore == Sum([i \in 1..Len(gs) |->
                           IF gs[i].total_score = <<>> THEN 0
                           ELSE gs[i].total_score[1]])
      scoredGames == Len(SelectSeq(gs, LAMBDA g : g.total_score # <<>>))
      frames == flat([i \in 1..Len(gs) |-> gs[i].frames])
      totalFrames == Len(frames)
      strikeFrames == Len(SelectSeq(frames, LAMBDA f : f.is_strike))
      spareFrames == Len(SelectSeq(frames, LAMBDA f : f.is_spare))
  IN [totalGames |-> totalGames,
      scoredGames |-> scoredGames,
      averageScore |-> IF scoredGames > 0
                       THEN <<toFixed(totalScore, scoredGames, 100)>> ELSE <<>>,
      totalFrames |-> totalFrames,
      strikeRate |-> IF totalFrames > 0
                     THEN <<toFixed(strikeFrames, totalFrames, 1000)>> ELSE <<0>>,
      spareRate |-> IF totalFrames > 0
                    THEN <<toFixed(spareFrames, totalFrames, 1000)>> ELSE <<0>>]

\* the games summarised: a score or none, and no frame, a strike or a spare
SummarizedGames ==
  [total_score : {<<>>, <<1>>, <<180>>, <<200>>, <<220>>},
   frames : {<<>>, <<[is_strike |-> TRUE, is_spare |-> FALSE]>>,
             <<[is_strike |-> FALSE, is_spare |-> TRUE]>>}]

\* ---------------------------------------------------- summarizeFrames
\* A frame carries its number, its flags and its shots; the pins of a shot
\* are optional (<<>> is null).

MaxFrameGames == 2

FrameShots == {<<>>, << <<>> >>, << <<10>> >>, << <<7>>, <<3>> >>}

FrameRows ==
  {f \in [frame_number : {1, 2}, is_strike : BOOLEAN, is_spare : BOOLEAN,
          shots : FrameShots] : ~(f.is_strike /\ f.is_spare)}

\* the games handed to summarizeFrames: each with no frame or one frame
FrameGames ==
  UNION {[1..n -> {<<>>} \cup {<<f>> : f \in FrameRows}] : n \in 0..MaxFrameGames}

\* lines 157-191: the entry the loop accumulates for each frame number
frameMap(gs) ==
  LET all == flat([i \in 1..Len(gs) |-> gs[i]])
      shotPins(f) == SelectSeq(f.shots, LAMBDA shot : shot # <<>>)
      framePins(f) == Sum([j \in 1..Len(shotPins(f)) |-> shotPins(f)[j][1]])
  IN [n \in {all[i].frame_number : i \in 1..Len(all)} |->
        LET of == SelectSeq(all, LAMBDA f : f.frame_number = n)
        IN [frames |-> Len(SelectSeq(of, LAMBDA f : Len(shotPins(f)) > 0)),
            pinTotal |-> Sum([j \in 1..Len(of) |->
                                IF Len(shotPins(of[j])) > 0 THEN framePins(of[j])
                                ELSE 0]),
            strikes |-> Len(SelectSeq(of, LAMBDA f : f.is_strike)),
            spares |-> Len(SelectSeq(of, LAMBDA f : f.is_spare))]]

\* the entries sorted by frame number; averagePins in hundredths (<<>> is
\* null), the rates in thousandths
summarizeFrames(gs) ==
  LET entries == frameMap(gs)
      count == Cardinality(DOMAIN entries)
      order == CHOOSE s \in [1..count -> DOMAIN entries] :
                 \A i, j \in 1..count : i < j => s[i] < s[j]
  IN [k \in 1..count |->
        LET entry == entries[order[k]]
        IN [frame |-> order[k],
            frames |-> entry.frames,
            averagePins |-> IF entry.frames > 0
                            THEN <<toFixed(entry.pinTotal, entry.frames, 100)>>
                            ELSE <<>>,
            strikeRate |-> IF entry.frames > 0
                           THEN toFixed(entry.strikes, entry.frames, 1000) ELSE 0,
            spareRate |-> IF entry.frames > 0
                          THEN toFixed(entry.spares, entry.frames, 1000) ELSE 0]]

\* ---------------------------------------------------- the pure functions
\* The post-processor, the extractors and the aggregator applied to inputs.

MaxRawLen == 3

RawAlphabet == {"null", "NULL", "nu<U+00E9>ll", "<U+00E9>", " ", "a", ".", "Q"}

RawAnswers == AllTexts(RawAlphabet, MaxRawLen)

FunctionInit ==
  /\ pc = "call"
  /\ ask = Null
  /\ scope = Null
  /\ HandlerAtRest

\* lines 2099, 2249: the answer of an online tier is post-processed
FormatOnline ==
  /\ pc = "call"
  /\ \E raw \in RawAnswers :
       /\ ask' = [fn |-> "formatAnswer", raw |-> raw, question |-> QuestionText]
       /\ scope' = formatAnswer(raw, QuestionText)
  /\ pc' = "returned"
  /\ UNCHANGED handlerVars

\* line 2333: the answer of the Offline tier is post-processed
FormatOffline ==
  /\ pc = "call"
  /\ \E raw \in RawAnswers :
       /\ ask' = [fn |-> "formatOfflineAnswer", raw |-> raw]
       /\ scope' = formatOfflineAnswer(raw)
  /\ pc' = "returned"
  /\ UNCHANGED handlerVars

\* line 1948: the game numbers of the question are extracted
ExtractGameNumbers ==
  /\ pc = "call"
  /\ \E q \in GameNumberQuestions :
       /\ ask' = [fn |-> "extractGameNumbers", form |-> q.form,
                  question |-> q.question, named |-> q.named]
       /\ scope' = extractGameNumbers(q.question)
  /\ pc' = "returned"
  /\ UNCHANGED handlerVars

\* lines 2014, 2018: the working set is summarised
SummarizeGames ==
  /\ pc = "call"
  /\ \E n \in 0..MaxSummarized : \E gs \in [1..n -> SummarizedGames] :
       /\ ask' = [fn |-> "summarizeGames", games |-> gs]
       /\ scope' = summarizeGames(gs)
  /\ pc' = "returned"
  /\ UNCHANGED handlerVars

MaxStatementLen == 4

\* the statements the engine may write: words, blanks, a semicolon and the
\* quote of a string literal
Statements ==
  AllTexts({"select", " ", "x", "limit", "200", ";", "'"}, MaxStatementLen)

\* line 1650: the statement the engine wrote is validated
ValidateSql ==
  /\ pc = "call"
  /\ \E sql \in Statements :
       /\ ask' = [fn |-> "validateSql", sql |-> sql]
       /\ scope' = validateSql(sql)
  /\ pc' = "returned"
  /\ UNCHANGED handlerVars

\* line 2020: the per-frame aggregate of the games of the working set
SummarizeFrames ==
  /\ pc = "call"
  /\ \E gs \in FrameGames :
       /\ ask' = [fn |-> "summarizeFrames", games |-> gs]
       /\ scope' = summarizeFrames(gs)
  /\ pc' = "returned"
  /\ UNCHANGED handlerVars

FunctionNext ==
  \/ FormatOnline
  \/ FormatOffline
  \/ ExtractGameNumbers
  \/ SummarizeGames
  \/ ValidateSql
  \/ SummarizeFrames

FunctionSpec == FunctionInit /\ [][FunctionNext]_vars

\* ----------------------------------------------------------- the answer log
\* Several requests served at once over one chat_questions table.  The tiers
\* of a request are those of Spec; here a request is the question it carries,
\* the answer its tiers end with, the response it returns and the upsert it
\* leaves in flight.

MaxRequests == 2

RequestIds == 1..MaxRequests

LogQuestions ==
  {<<"A", " ", "1">>, <<"a", " ", "\n", "200", "!">>,
   <<"average", " ", "12", "?">>, <<"?">>}

\* the final answers of the tiers, post-processed
LogAnswers == {<<"A", ".">>, <<"N/a", ".">>}

Received == [state |-> "received"]

LogInit ==
  /\ pc = "serving"
  /\ ask = Null
  /\ scope = Null
  /\ chatModeRaw = ""
  /\ question = NoQuestion
  /\ userAccessToken = Null
  /\ onlineErrors = <<>>
  /\ attempts = <<>>
  /\ sqlAttempt = "none"
  /\ contextAttempt = "none"
  /\ generatedSql = <<>>
  /\ rpcQuery = <<>>
  /\ rpcClient = Null
  /\ rpcRows = 0
  /\ engineCalls = 0
  /\ response = Pending
  /\ responses = 0
  /\ offlineRan = FALSE
  /\ games = <<>>
  /\ sessions = <<>>
  /\ gameId = Null
  /\ upserts = <<>>
  /\ requests = [r \in RequestIds |-> Received]
  /\ chatQuestions \in {{}, {[normalized_question |-> <<"a", " ", "x">>,
                              last_answer |-> <<"Old", ".">>]}}

\* lines 2099-2116, 2249-2262 and 2333-2342: the final answer is logged
\* without awaiting the upsert and the response is returned
Answers(r) ==
  /\ requests[r].state = "received"
  /\ \E q \in LogQuestions, finalAnswer \in LogAnswers, tier \in {"online", "offline"} :
       LET key == normalizeQuestion(q)
       IN requests' = [requests EXCEPT ![r] =
            [state |-> "answered",
             question |-> q,
             upsert |-> IF key = <<>> THEN Null
                        ELSE [normalized_question |-> key,
                              last_answer |-> finalAnswer],
             settled |-> IF key = <<>> THEN "none" ELSE "in_flight",
             response |-> IF tier = "online" THEN [answer |-> finalAnswer]
                          ELSE [offlineAnswer |-> finalAnswer,
                                offlineNote |-> OfflineNote]]]
  /\ UNCHANGED <<chatQuestions, upserts, pipeVars, scopeVars>>

\* mutant: the row is inserted whether or not the key is already there
upsertAsInsert(rows, payload) == rows \cup {payload}

\* .upsert(payload, { onConflict: "normalized_question" }): the row with the
\* key is replaced, or the payload becomes a new row
upsert(rows, payload) ==
  {row \in rows : row.normalized_question # payload.normalized_question}
    \cup {payload}

\* lines 724-726: the store applies the upsert of request r
UpsertApplied(r) ==
  /\ requests[r].state = "answered"
  /\ requests[r].settled = "in_flight"
  /\ chatQuestions' = upsert(chatQuestions, requests[r].upsert)
  /\ requests' = [requests EXCEPT ![r].settled = "applied"]
  /\ UNCHANGED <<upserts, pipeVars, scopeVars>>

\* mutant: the upsert is awaited and its error thrown to the caller
UpsertFailsAborting(r) ==
  /\ requests[r].state = "answered"
  /\ requests[r].settled = "in_flight"
  /\ requests' = [requests EXCEPT ![r].settled = "failed",
                                  ![r].response = ErrorResponse(500, "upsert failed")]
  /\ UNCHANGED <<chatQuestions, upserts, pipeVars, scopeVars>>

\* lines 727-729: the upsert returns an error, which is only warned about
UpsertFails(r) ==
  /\ requests[r].state = "answered"
  /\ requests[r].settled = "in_flight"
  /\ requests' = [requests EXCEPT ![r].settled = "failed"]
  /\ UNCHANGED <<chatQuestions, upserts, pipeVars, scopeVars>>

LogNext ==
  \/ \E r \in RequestIds : Answers(r)
  \/ \E r \in RequestIds : UpsertApplied(r)
  \/ \E r \in RequestIds : UpsertFails(r)

LogSpec == LogInit /\ [][LogNext]_vars

\* ------------------------------------------------------------------ claims

Range(seq) == {seq[i] : i \in 1..Len(seq)}

IsSuccess(r) == "answer" \in DOMAIN r /\ "offlineAnswer" \notin DOMAIN r
IsDegraded(r) == "offlineAnswer" \in DOMAIN r /\ "answer" \notin DOMAIN r
IsError(r) == "error" \in DOMAIN r

\* the tiers the policy named by CHAT_MODE permits, in order
PermittedTiers ==
  IF chatModeRaw = "sql" THEN <<"sql">>
  ELSE IF chatModeRaw = "context" THEN <<"context">>
  ELSE <<"sql", "context">>

TierResult(tier) == IF tier = "sql" THEN sqlAttempt ELSE contextAttempt

\* every online tier the policy permits was attempted and returned null
AllTiersFailed ==
  /\ attempts = PermittedTiers
  /\ \A i \in 1..Len(attempts) : TierResult(attempts[i]) = "null"

\* C1: total-failure guarantee.  Under every routing policy, once every online
\* tier the policy attempts has failed (by an error, by deferring or by a
\* throw), the request has returned exactly one response, of the Degraded
\* shape, with a non-empty offlineAnswer and a non-empty offlineNote.
C1_TotalFailure ==
  AllTiersFailed =>
    /\ pc = "done"
    /\ responses = 1
    /\ IsDegraded(response)
    /\ response.offlineAnswer # <<>>
    /\ response.offlineNote # ""
    /\ "onlineError" \in DOMAIN response

\* C1 witness: under mix both tiers failed by a throw and the Offline tier,
\* finding no rule for the question, answered with its fixed sentence
C1_Witness ==
  /\ chatModeRaw = "mix"
  /\ AllTiersFailed
  /\ onlineErrors = <<"fetch failed", "Gemini error: quota exceeded">>
  /\ IsDegraded(response)
  /\ response.offlineAnswer = OfflineDefault

\* C2: every request that enters Routing eventually returns exactly one
\* response, which is either Success (answer, no offlineAnswer) or Degraded
\* (offlineAnswer, no answer), given that every awaited call returns or throws.
C2_AlwaysAnswers ==
  (pc = "routing") ~>
    (pc = "done" /\ responses = 1 /\ IsSuccess(response) # IsDegraded(response))

\* C2 witness: a Success response from the Context tier after the SQL tier
\* returned null
C2_Witness ==
  /\ pc = "done"
  /\ attempts = <<"sql", "context">>
  /\ IsSuccess(response)
  /\ responses = 1

\* C3: tier ordering follows the policy.  Under sql the Context tier is never
\* attempted, under context the SQL tier is never attempted, and under mix, or
\* any other value of CHAT_MODE, the SQL tier is attempted first and the
\* Context tier is attempted if and only if the SQL attempt returned null.
C3_TierOrdering ==
  /\ chatModeRaw = "sql" => "context" \notin Range(attempts)
  /\ chatModeRaw = "context" => "sql" \notin Range(attempts)
  /\ chatModeRaw \notin {"sql", "context"} =>
       /\ attempts \in {<<>>, <<"sql">>, <<"sql", "context">>}
       /\ ("context" \in Range(attempts)) <=> (sqlAttempt = "null")
  /\ attempts # <<>> => attempts[1] = PermittedTiers[1]
  /\ pc \in {"sql_gen", "sql_exec", "sql_answer", "ctx_call"} => attempts # <<>>

\* C3 witness: under sql the SQL tier returned the defer sentinel (null with
\* no error) and the request ended without a Context attempt
C3_Witness ==
  /\ chatModeRaw = "sql"
  /\ sqlAttempt = "null"
  /\ onlineErrors = <<>>
  /\ attempts = <<"sql">>
  /\ pc = "done"

\* C4: the Offline tier runs, and a Degraded response is returned, only after
\* every online tier the policy permits was attempted and returned no answer.
C4_OfflineOnlyAfterAllTiers ==
  (offlineRan \/ IsDegraded(response)) =>
    /\ AllTiersFailed
    /\ sqlAttempt # "answer"
    /\ contextAttempt # "answer"

\* C4 witness: the Offline tier ran under an unrecognised CHAT_MODE after both
\* tiers were attempted
C4_Witness ==
  /\ offlineRan
  /\ chatModeRaw = "auto"
  /\ attempts = <<"sql", "context">>
  /\ IsDegraded(response)

\* what C5 asks of a query: it starts with SELECT in any case, has no
\* semicolon, and has no forbidden keyword as a whole word
SafeQuery(query) ==
  /\ query # <<>>
  /\ toLowerCase(query[1]) = "select"
  /\ \A i \in 1..Len(query) : query[i] # ";"
  /\ \A i \in 1..Len(query), k \in 1..Len(forbidden) :
       ~WholeWordAt(query, i, forbidden[k])

\* C5: every query passed to execute_sql is the output of a successful
\* validateSql of the sql the engine generated, so it starts with SELECT
\* (case-insensitive), has no semicolon and no forbidden keyword as a whole
\* word; a generated sql that validateSql rejects is never executed.
C5_OnlyValidatedQueriesRun ==
  pc = "sql_exec" =>
    /\ SafeQuery(rpcQuery)
    /\ LET core == StripTrailingSemicolons(Trim(generatedSql))
       IN rpcQuery \in {core, core \o <<" ", "limit", " ", "200">>}

\* C5 witness: a generated sql with surrounding blanks and a trailing
\* semicolon is executed without them, with the row cap
C5_Witness ==
  /\ pc = "sql_exec"
  /\ generatedSql = <<" ", "SELECT", ";">>
  /\ rpcQuery = <<"SELECT", " ", "limit", " ", "200">>

\* C6: every execute_sql call is made with a client carrying the access token
\* of the caller, never with the service-role client.  (Violated: without an
\* anon key or without a token the service-role client is used.)
C6_RpcScopedToCaller ==
  pc = "sql_exec" => rpcClient = "user"

\* the messages a failing SQL attempt records
SqlFailureMessages ==
  {"SQL generation failed.", "sql.trim is not a function",
   "Only SELECT statements are allowed.", "Multiple statements are not allowed.",
   "SQL execution failed.", "fetch failed"}
  \cup {"Forbidden keyword: " \o forbidden[k] : k \in 1..Len(forbidden)}
  \cup (RpcErrors \ {""}) \cup EngineErrors

SqlStates == {"sql_gen", "sql_exec", "sql_answer"}

\* the Orchestrator goes on to the next tier: Context under mix, Offline under sql
ProceedsToNextTier ==
  IF chatModeRaw = "sql"
  THEN pc' = "done" /\ offlineRan' /\ IsDegraded(response')
  ELSE pc' = "ctx_call" /\ contextAttempt' = "pending" /\ response' = Pending

SqlStepNonFatal ==
  pc \in SqlStates =>
    \/ pc' \in SqlStates /\ sqlAttempt' = "pending" /\ onlineErrors' = onlineErrors
    \/ sqlAttempt' = "answer" /\ IsSuccess(response')
    \/ sqlAttempt' = "null" /\ onlineErrors' = onlineErrors /\ ProceedsToNextTier
    \/ /\ sqlAttempt' = "null"
       /\ \E m \in SqlFailureMessages : onlineErrors' = Append(onlineErrors, m)
       /\ ProceedsToNextTier

\* C7: a failure of the SQL tier is not fatal.  Every step of the SQL attempt
\* either stays in the tier, or answers, or defers, or (generation failure,
\* validation rejection, execution error, thrown exception) appends exactly one
\* message to the error list, returns no answer and hands over to the next
\* tier; no step returns an error response.
C7_SqlFailureNonFatal == [][SqlStepNonFatal]_vars

\* C7 witness: under mix a validation rejection was recorded and the Context
\* tier is being attempted
C7_Witness ==
  /\ pc = "ctx_call"
  /\ chatModeRaw = "mix"
  /\ sqlAttempt = "null"
  /\ onlineErrors = <<"Forbidden keyword: drop">>

\* C8: an empty result set is a tier error: when the query returns zero rows
\* the SQL tier asks for no answer and produces none.  (Violated: the rows are
\* never counted, and the answer is generated from the empty result.)
C8_EmptyResultIsTierError ==
  (pc = "sql_answer" \/ sqlAttempt = "answer") => rpcRows > 0

\* the filter kinds of the Selection that are active
ActiveFilterKinds ==
  {k \in {"game-number", "session", "time"} :
     \/ k = "game-number" /\ Len(ask.selectedNumbers) > 0
     \/ k = "session" /\ scope.hasSessionFilter
     \/ k = "time" /\ scope.hasTimeFilter}

\* each filter kind applied alone to the full ordered collection
BySessionAlone ==
  Ids(sessionFilteredGames(scope.orderedGames, ask, scope.selectedSessionIds))

ByNumberAlone ==
  Ids(selectedGames(scope.orderedGames, ask, scope.gameNumberById))

ByTimeAlone == Ids(applyTimeFilter(scope.orderedGames, ask.timeFilter))

FilterIntersection == BySessionAlone \cap ByNumberAlone \cap ByTimeAlone

\* C9: filter intersection.  With two or more active filter kinds the games
\* summarised for the Offline tier, the games summarised for the Context tier
\* and the games embedded in the Context payload are each the intersection of
\* the filter kinds applied alone.  (Violated: the Context tier is handed the
\* games before the time filter.)
C9_FilterIntersection ==
  (pc = "scope_done" /\ Cardinality(ActiveFilterKinds) >= 2) =>
    /\ Ids(scope.offlineGames) = FilterIntersection
    /\ Ids(scope.onlineGames) = FilterIntersection
    /\ Len(scope.contextGames) = Cardinality(FilterIntersection)

\* the Game Index built over the loaded collection when the session filter
\* is, or is not, active
IndexGiven(sessionFilter) ==
  LET sidx == sessionIndex(games, sessions)
      og == orderedGames(games)
  IN GameIndex(og, gameLabelById(og, sidx, customNameById(games), sessionFilter),
               sidx)

\* the session references of a question that put a session filter on the
\* loaded collection
ReferencesWithSessionFilter ==
  LET sidx == sessionIndex(games, sessions)
  IN {r \in SessionReferences : hasSessionFilter(r, selectedSessionIds(r, sidx))}

SessionReferenceOf(a) ==
  [sessionNumbers |-> a.sessionNumbers, mentions |-> a.mentions,
   sessionless |-> a.sessionless]

RankInSession(i) ==
  Cardinality({j \in 1..i :
                 scope.orderedGames[j].session_id = scope.orderedGames[i].session_id})

C11_NullPlayedAtExcluded ==
  (pc = "scope_done" /\ scope.hasTimeFilter) =>
    \A i \in 1..Len(scope.offlineGames) : scope.offlineGames[i].played_at # <<>>

\* C12: the time normaliser is idempotent.  For every filter and every finite
\* offset, normalising the normalised filter again with the same offset gives
\* the normalised filter.  (Violated: a before/after minute is shifted by the
\* offset a second time.)
C12_NormalizerIdempotent ==
  pc = "time_twice" =>
    scope = normalizeTimeFilterToUtc(ask.filter, ask.timezoneOffsetMinutes)

\* the clause of the question: its local minute, or none
LocalClause ==
  IF ask.filter.beforeMinutes # <<>> THEN ask.filter.beforeMinutes
  ELSE ask.filter.afterMinutes

\* C13: for a local minute m and an integer offset o the normalised
\* before/after value is (m + o) mod 1440, within 0..1439, and a single date
\* that comes with it is moved by exactly floor((m + o) / 1440) days.
C13_MinuteShift ==
  (pc = "time_once" /\ ask.timezoneOffsetMinutes # <<>> /\ LocalClause # <<>>) =>
    LET total == LocalClause[1] + ask.timezoneOffsetMinutes[1]
        normalized == IF ask.filter.beforeMinutes # <<>>
                      THEN scope.beforeMinutes ELSE scope.afterMinutes
    IN /\ normalized = <<total % 1440>>
       /\ normalized[1] \in 0..1439
       /\ ask.filter.date # <<>> =>
            scope.date = <<ask.filter.date[1] + (total \div 1440)>>
       /\ ask.filter.date = <<>> => scope.date = <<>>

\* C13 witness: after 11pm on day 1, five hours west of UTC, is after minute
\* 240 on day 2
C13_Witness ==
  /\ pc = "time_once"
  /\ ask.timezoneOffsetMinutes = <<300>>
  /\ ask.filter.afterMinutes = <<1380>>
  /\ ask.filter.date = <<1>>
  /\ scope.afterMinutes = <<240>>
  /\ scope.date = <<2>>

\* C14: null elision.  For every raw answer that contains the literal null,
\* and every question, the post-processed text has no null, in any letter
\* case, as a standalone word.  (Violated: the replacement runs before the
\* characters outside the printable range are removed, and removing one from
\* inside a word can leave the word null.)
C14_NullElision ==
  (/\ pc = "returned"
   /\ ask.fn \in {"formatAnswer", "formatOfflineAnswer"}
   /\ \E i \in 1..Len(ask.raw) : toLowerCase(ask.raw[i]) = "null")
    => ~HasWholeWord(scope, "null")

\* C15: game-number extraction returns a deduplicated ascending sequence; a
\* range yields every number between its ends, both included, whichever end
\* is written first; a comma or and list yields the numbers it names; so
\* games 2-4 and game 2, 3 and 4 both yield 2, 3, 4.
C15_GameNumbers ==
  /\ extractGameNumbers(<<"games", " ", "2", "-", "4">>) = <<2, 3, 4>>
  /\ extractGameNumbers(<<"game", " ", "2", ",", " ", "3", " ", "and", " ", "4">>)
       = <<2, 3, 4>>
  /\ (pc = "returned" /\ ask.fn = "extractGameNumbers") =>
       /\ \A i \in 1..(Len(scope) - 1) : scope[i] < scope[i + 1]
       /\ {scope[i] : i \in 1..Len(scope)} = ask.named

\* C15 witness: the range games 4 to 2, written from the larger end
C15_Witness ==
  /\ pc = "returned"
  /\ ask.fn = "extractGameNumbers"
  /\ ask.question = <<"games", " ", "4", " ", "to", " ", "2">>
  /\ scope = <<2, 3, 4>>

\* the total scores that are not null, and their sum
ScoresOf(gs) ==
  SelectSeq([i \in 1..Len(gs) |-> gs[i].total_score], LAMBDA t : t # <<>>)

SumOfScores(gs) == LET scores == ScoresOf(gs) IN Sum([i \in 1..Len(scores) |-> scores[i][1]])

FramelessRatesAreZero ==
  (\A i \in 1..Len(ask.games) : ask.games[i].frames = <<>>)
    => scope.strikeRate = <<0>> /\ scope.spareRate = <<0>>

\* C16 as stated: averageScore is null exactly when no game has a score, and
\* otherwise is the sum of the scores divided by the number of scored games;
\* the overall rates are 0 when there are no frames.
C16_AverageIsQuotient ==
  (pc = "returned" /\ ask.fn = "summarizeGames") =>
    /\ scope.averageScore = <<>> <=> ScoresOf(ask.games) = <<>>
    /\ scope.averageScore # <<>> =>
         scope.averageScore[1] * Len(ScoresOf(ask.games)) = 100 * SumOfScores(ask.games)
    /\ FramelessRatesAreZero

\* C16: averageScore is null exactly when no game has a score, and otherwise
\* is the sum of the scores divided by the number of scored games rounded to
\* the nearest hundredth (200 for 200, 180, 220); the overall rates are 0,
\* not null, when there are no frames.
C16_AverageIsRoundedQuotient ==
  /\ summarizeGames(<<[total_score |-> <<200>>, frames |-> <<>>],
                      [total_score |-> <<180>>, frames |-> <<>>],
                      [total_score |-> <<220>>, frames |-> <<>>]>>).averageScore
       = <<20000>>
  /\ (pc = "returned" /\ ask.fn = "summarizeGames") =>
       /\ scope.averageScore = <<>> <=> ScoresOf(ask.games) = <<>>
       /\ scope.averageScore # <<>> =>
            LET n == Len(ScoresOf(ask.games))
                d == scope.averageScore[1] * n - 100 * SumOfScores(ask.games)
            IN 2 * d <= n /\ 2 * d > 0 - n
       /\ FramelessRatesAreZero

\* C16 witness: an unscored game and two games scoring 201 together, with no
\* frames: the average is 100.5 over the two scored games and the rates are 0
C16_Witness ==
  /\ pc = "returned"
  /\ ask.fn = "summarizeGames"
  /\ Len(ask.games) = 3
  /\ ask.games[1].total_score = <<>>
  /\ SumOfScores(ask.games) = 201
  /\ \A i \in 1..3 : ask.games[i].frames = <<>>
  /\ scope.averageScore = <<10050>>
  /\ scope.strikeRate = <<0>>

\* C17: when gameId is present the working set is exactly that one game for
\* every question: session and game-number references never remove it.
C17_GameIdScopesToOneGame ==
  (pc = "scope_done" /\ gameId # Null) => Ids(scope.onlineGames) = {gameId}

\* C18: a session's label is its trimmed name when that is not empty, and
\* otherwise Session K where K is the session's position among all of the
\* owner's sessions ordered by creation time, ties by identity, whether or not
\* the other sessions have games.
C18_SessionLabelByPositionAmongAll ==
  pc = "scope_done" =>
    LET all == orderedSessions(sessions)
    IN \A k \in 1..Len(scope.sessionIndex) :
         LET entry == scope.sessionIndex[k]
             K == CHOOSE p \in 1..Len(all) : all[p].id = entry.sessionId
         IN entry.sessionLabel =
              IF Trim(all[K].name) # <<>> THEN Trim(all[K].name)
              ELSE <<"Session", " ", ToString(K)>>

\* the same rows as the store could also have returned them
ReturnOrders(rows) ==
  {r \in {[i \in 1..Len(rows) |-> rows[p[i]]] : p \in Permutations(1..Len(rows))} :
     StoreOrdered(r)}

\* C19: game numbering within a session is a function of the games alone:
\* whichever order the store returned the rows in, every game receives the
\* same number.
C19_NumberingIndependentOfReturnOrder ==
  (pc = "scope_done" /\ gameId = Null) =>
    \A rows \in ReturnOrders(games) :
      gameNumberById(orderedGames(rows)) = scope.gameNumberById

\* C20: when the question names no session, game numbering is global: no two
\* games of the collection have the same number, and a reference to game N
\* selects at most one game.
C20_GlobalNumberingWithoutSession ==
  (/\ pc = "scope_done"
   /\ ask.sessionNumbers = <<>> /\ ask.mentions = {} /\ ~ask.sessionless) =>
    /\ \A a, b \in DOMAIN scope.gameNumberById :
         scope.gameNumberById[a] = scope.gameNumberById[b] => a = b
    /\ Len(ask.selectedNumbers) = 1 => Len(scope.onlineGames) <= 1

\* C21: every request that returns a Success or a Degraded response has
\* issued exactly one upsert to the answer log, keyed by the normalized
\* question, whose last_answer is the answer text of the response.
C21_AlwaysLogs ==
  (pc = "done" /\ (IsSuccess(response) \/ IsDegraded(response))) =>
    /\ Len(upserts) = 1
    /\ upserts[1].normalized_question = normalizedQuestion
    /\ upserts[1].last_answer =
         IF IsSuccess(response) THEN response.answer ELSE response.offlineAnswer

\* C22: a failure of the answer-log upsert never aborts the response: once a
\* request has answered, its response stays the Success or Degraded body with
\* the final answer, whether its upsert is in flight, applied or failed.
C22_LogFailureNeverAborts ==
  pc = "serving" =>
    \A r \in RequestIds :
      (requests[r].state = "answered" /\ requests[r].settled # "none") =>
        LET body == requests[r].response
        IN /\ IsSuccess(body) \/ IsDegraded(body)
           /\ requests[r].upsert.last_answer =
                IF IsSuccess(body) THEN body.answer ELSE body.offlineAnswer

\* C22 witness: a request whose upsert failed holds its Success response
C22_Witness ==
  /\ pc = "serving"
  /\ requests[1].state = "answered"
  /\ requests[1].settled = "failed"
  /\ IsSuccess(requests[1].response)
  /\ requests[1].response.answer = requests[1].upsert.last_answer

C24_TwoDatesOneRange ==
  (/\ pc = "time_once"
   /\ ask.filter.rangeStart # <<>>
   /\ ask.filter.beforeMinutes = <<>> /\ ask.filter.afterMinutes = <<>>
   /\ ask.timezoneOffsetMinutes # <<>>) =>
    LET a == ask.filter.rangeStart[1]
        b == ask.filter.rangeEnd[1]
        earlier == IF a <= b THEN a ELSE b
        later == IF a <= b THEN b ELSE a
        o == ask.timezoneOffsetMinutes[1]
    IN /\ scope.utcDateStart = <<toISOString(DateUTC(earlier) + o)>>
       /\ scope.utcDateEnd = <<toISOString(DateUTC(later + 1) + o)>>
       /\ \A d \in earlier..later, m \in {0, MinutesPerDay - 1} :
            LET game == [played_at |-> <<DateUTC(d) + m + o>>]
            IN applyTimeFilter(<<game>>, scope) = <<game>>

\* the number of quotes among the first n units of a statement
QuotesBefore(stmt, n) == Len(SelectSeq(SubSeq(stmt, 1, n), LAMBDA u : u = "'"))

\* a LIMIT clause that the store reads: the word limit outside a string
\* literal
HasRowCap(stmt) ==
  \E i \in 1..Len(stmt) :
    WholeWordAt(stmt, i, "limit") /\ QuotesBefore(stmt, i - 1) % 2 = 0

\* C25: validateSql returns its input, trimmed and without trailing
\* semicolons, unchanged when it has the word limit and with limit 200
\* appended otherwise, so the statement that is executed is always limited.
C25_AlwaysLimited ==
  (/\ pc = "returned" /\ ask.fn = "validateSql" /\ scope.ok
   /\ QuotesBefore(ask.sql, Len(ask.sql)) % 2 = 0) =>
    LET trimmed == StripTrailingSemicolons(Trim(ask.sql))
    IN /\ scope.sql = IF HasWholeWord(trimmed, "limit") THEN trimmed
                      ELSE trimmed \o <<" ", "limit", " ", "200">>
       /\ HasRowCap(scope.sql)

\* the requests whose upsert the store has applied under the key k
AppliedUnder(k) ==
  {r \in RequestIds : /\ requests[r].state = "answered"
                      /\ requests[r].settled = "applied"
                      /\ requests[r].upsert.normalized_question = k}

AllSettled ==
  \A r \in RequestIds :
    requests[r].state = "answered" /\ requests[r].settled # "in_flight"

C27_HungCallStillAnswers == (pc = "hung") ~> (pc = "done")

\* C28: with a before T or an after T clause, no date and a timezone offset
\* o, a game passes the time filter exactly when its local minute of the day,
\* (UTC minute - o) mod 1440, is less than T (before) or greater than T (after).
C28_LocalMinuteComparison ==
  (/\ pc = "time_once"
   /\ ask.filter.date = <<>> /\ ask.filter.rangeStart = <<>>
   /\ ask.filter.beforeMinutes # <<>> \/ ask.filter.afterMinutes # <<>>
   /\ ask.timezoneOffsetMinutes # <<>>) =>
    \A utcMinute \in {0, 100, 700, 1000, 1439} :
      LET game == [played_at |-> <<DateUTC(1) + utcMinute>>]
          o == ask.timezoneOffsetMinutes[1]
          localMinute == (utcMinute - o) % MinutesPerDay
      IN (applyTimeFilter(<<game>>, scope) = <<game>>)
           <=> IF ask.filter.beforeMinutes # <<>>
               THEN localMinute < ask.filter.beforeMinutes[1]
               ELSE localMinute > ask.filter.afterMinutes[1]

\* C29: when the question holds a numeric session reference, every game of the
\* working set belongs to a session at one of the referenced positions of the
\* session index; a reference that resolves to no session never leaves the
\* working set unfiltered.
C29_NumericSessionReferenceFilters ==
  (pc = "scope_done" /\ ask.sessionNumbers # <<>>) =>
    \A i \in 1..Len(scope.onlineGames) :
      /\ scope.onlineGames[i].session_id # Null
      /\ \E v \in 1..Len(ask.sessionNumbers) :
           /\ ask.sessionNumbers[v] \in 1..Len(scope.sessionIndex)
           /\ scope.sessionIndex[ask.sessionNumbers[v]].sessionId
                = scope.onlineGames[i].session_id

\* C30: in every per-frame aggregate of summarizeFrames the strikes and the
\* spares counted for a frame number never exceed the frame count used as the
\* denominator, so strikeRate and spareRate lie between 0 and 1.
C30_RatesWithinUnit ==
  (pc = "returned" /\ ask.fn = "summarizeFrames") =>
    /\ \A n \in DOMAIN frameMap(ask.games) :
         /\ frameMap(ask.games)[n].strikes <= frameMap(ask.games)[n].frames
         /\ frameMap(ask.games)[n].spares <= frameMap(ask.games)[n].frames
    /\ \A k \in 1..Len(scope) :
         /\ scope[k].strikeRate \in 0..1000
         /\ scope[k].spareRate \in 0..1000

====
